---- MODULE Spec2Model ----
(***************************************************************************)
(* A model of ts-project-indexer-mcp: the cache manager, the indexing      *)
(* engine (analysis, search, dependency traversal), file discovery and     *)
(* import resolution.                                                      *)
(*                                                                         *)
(* Text is modelled as a sequence of one-character strings, so that the    *)
(* string operations of the code (includes, startsWith, replace, split)    *)
(* are computed character by character, as the code computes them.         *)
(***************************************************************************)
EXTENDS Integers, Sequences, FiniteSets, TLC

VARIABLES
    cache,      \* CacheManager.cache: the in-memory tier, key -> CacheEntry
    disk,       \* the files of the cache directory, file name -> content
    now,        \* the wall clock, Date.now(), in milliseconds
    written,    \* history: key -> the entry of the last set(key) that no
                \* delete(key) or clear() followed
    call,       \* the last operation: its name, arguments and return value
    input,      \* the arguments a pure function is applied to
    indexData,  \* ProjectIndexer.indexData
    pathResolver, \* ProjectIndexer.pathResolver, the parser's resolver as well
    fsVersion,  \* which contents the project directory has
    faults,     \* path -> the failure the file system answers with for it
    task        \* the progress of an operation that runs in several steps

cacheVars == <<cache, disk, now, written>>
engineVars == <<indexData, pathResolver, fsVersion, faults, task>>
vars ==
    <<cache, disk, now, written, call, input, indexData, pathResolver, fsVersion, faults,
      task>>

(***************************************************************************)
(* Strings                                                                 *)
(***************************************************************************)
LowerLetters ==
    <<"a", "b", "c", "d", "e", "f", "g", "h", "i", "j", "k", "l", "m",
      "n", "o", "p", "q", "r", "s", "t", "u", "v", "w", "x", "y", "z">>

UpperLetters ==
    <<"A", "B", "C", "D", "E", "F", "G", "H", "I", "J", "K", "L", "M",
      "N", "O", "P", "Q", "R", "S", "T", "U", "V", "W", "X", "Y", "Z">>

Digits == {"0", "1", "2", "3", "4", "5", "6", "7", "8", "9"}

Range(s) == {s[i] : i \in DOMAIN s}

\* the characters of the class [a-zA-Z0-9]
Alnum == Range(LowerLetters) \cup Range(UpperLetters) \cup Digits

IsAlnum(c) == c \in Alnum

StartsWith(s, p) == Len(p) <= Len(s) /\ SubSeq(s, 1, Len(p)) = p

EndsWith(s, p) == Len(p) <= Len(s) /\ SubSeq(s, Len(s) - Len(p) + 1, Len(s)) = p

\* String.prototype.includes
Includes(s, p) == \E i \in 0..(Len(s) - Len(p)) : SubSeq(s, i + 1, i + Len(p)) = p

\* s.replace(/\\/g, '/')
BackslashToSlash(s) == [i \in DOMAIN s |-> IF s[i] = "\\" THEN "/" ELSE s[i]]

\* s.replace(/x/g, to) for a literal x: the occurrences from left to right
RECURSIVE ReplaceAll(_, _, _)
ReplaceAll(s, x, to) ==
    IF Len(s) < Len(x) THEN s
    ELSE IF StartsWith(s, x) THEN to \o ReplaceAll(SubSeq(s, Len(x) + 1, Len(s)), x, to)
    ELSE <<s[1]>> \o ReplaceAll(Tail(s), x, to)

\* String.prototype.substring(0, n)
Substring0(s, n) == SubSeq(s, 1, IF Len(s) < n THEN Len(s) ELSE n)

(***************************************************************************)
(* Values                                                                  *)
(***************************************************************************)
Null == [tag |-> "null"]

Undefined == [tag |-> "undefined"]

\* a Date object, and the ISO string JSON.stringify writes for it
DateOf(ms) == [tag |-> "Date", ms |-> ms]

IsoString(ms) == [tag |-> "string", ms |-> ms]

\* Date.prototype.toJSON
DateToJSON(d) == IsoString(d.ms)

\* new Date(x), for x a Date or an ISO string
NewDate(x) == DateOf(x.ms)

\* the properties the record types declare optional
OptionalProps == {"returnType", "resolvedTo", "handler"}

\* the object without the properties whose value is undefined, as
\* JSON.stringify writes it
DropUndefined(r) ==
    [k \in {f \in DOMAIN r : ~(f \in OptionalProps /\ r[f] = Undefined)} |-> r[k]]

\* a property read: undefined when the object has no such property
Prop(r, k) == IF k \in DOMAIN r THEN r[k] ELSE Undefined

(***************************************************************************)
(* node:path, POSIX flavour.  Paths are strings; resolve, join and         *)
(* relative work on their '/'-separated segments.                          *)
(***************************************************************************)
Slash == "/"

\* the position of the first c in s, 0 when there is none
IndexOf(s, c) ==
    IF \E i \in DOMAIN s : s[i] = c
    THEN CHOOSE i \in DOMAIN s : s[i] = c /\ \A j \in 1..(i - 1) : s[j] # c
    ELSE 0

\* the position of the last c in s, 0 when there is none
LastIndexOf(s, c) ==
    IF \E i \in DOMAIN s : s[i] = c
    THEN CHOOSE i \in DOMAIN s : s[i] = c /\ \A j \in (i + 1)..Len(s) : s[j] # c
    ELSE 0

\* String.prototype.split(c)
RECURSIVE Split(_, _)
Split(s, c) ==
    IF IndexOf(s, c) = 0 THEN <<s>>
    ELSE <<SubSeq(s, 1, IndexOf(s, c) - 1)>>
         \o Split(SubSeq(s, IndexOf(s, c) + 1, Len(s)), c)

\* Array.prototype.join(c)
RECURSIVE JoinWith(_, _)
JoinWith(segs, c) ==
    IF segs = <<>> THEN <<>>
    ELSE IF Len(segs) = 1 THEN segs[1]
    ELSE segs[1] \o <<c>> \o JoinWith(Tail(segs), c)

\* the segments of an absolute path with '', '.' and '..' resolved
RECURSIVE NormalizeSegs(_, _)
NormalizeSegs(segs, acc) ==
    IF segs = <<>> THEN acc
    ELSE IF segs[1] = <<>> \/ segs[1] = <<".">> THEN NormalizeSegs(Tail(segs), acc)
    ELSE IF segs[1] = <<".", ".">>
    THEN NormalizeSegs(Tail(segs), IF acc = <<>> THEN acc ELSE SubSeq(acc, 1, Len(acc) - 1))
    ELSE NormalizeSegs(Tail(segs), Append(acc, segs[1]))

AbsSegs(p) == NormalizeSegs(Split(p, Slash), <<>>)

AbsPath(segs) == <<Slash>> \o JoinWith(segs, Slash)

IsAbsolute(p) == StartsWith(p, <<Slash>>)

\* process.cwd()
Cwd == <<"/", "w">>

\* path.resolve(from, to), from absolute
Resolve2(from, to) ==
    IF IsAbsolute(to) THEN AbsPath(AbsSegs(to))
    ELSE AbsPath(AbsSegs(from \o <<Slash>> \o to))

\* path.resolve(p)
Resolve(p) == Resolve2(Cwd, p)

\* path.join(dir, name), dir absolute
Join(dir, name) == AbsPath(AbsSegs(dir \o <<Slash>> \o name))

\* path.dirname of an absolute path
Dirname(p) ==
    IF LastIndexOf(p, Slash) <= 1 THEN <<Slash>>
    ELSE SubSeq(p, 1, LastIndexOf(p, Slash) - 1)

\* path.basename
Basename(p) == SubSeq(p, LastIndexOf(p, Slash) + 1, Len(p))

\* path.extname: from the last '.' of the base name, '' when there is none
\* or the base name starts with its only '.'
Extname(p) ==
    LET b == Basename(p) IN
    IF LastIndexOf(b, ".") <= 1 THEN <<>> ELSE SubSeq(b, LastIndexOf(b, "."), Len(b))

RECURSIVE CommonPrefixLen(_, _)
CommonPrefixLen(a, b) ==
    IF a = <<>> \/ b = <<>> \/ a[1] # b[1] THEN 0
    ELSE 1 + CommonPrefixLen(Tail(a), Tail(b))

\* path.relative(from, to)
Relative(from, to) ==
    LET f == AbsSegs(Resolve(from))
        t == AbsSegs(Resolve(to))
        n == CommonPrefixLen(f, t)
    IN JoinWith([i \in 1..(Len(f) - n) |-> <<".", ".">>] \o SubSeq(t, n + 1, Len(t)), Slash)

(***************************************************************************)
(* JSON documents of the cache directory.  The payload of an entry is the  *)
(* serialized IndexData (the only payload the program stores): four arrays *)
(* of [key, value] pairs and lastIndexed.                                  *)
(***************************************************************************)
MapSeq(s, Op(_)) == [i \in DOMAIN s |-> Op(s[i])]

StringifyFileInfo(f) == [f EXCEPT !.lastModified = DateToJSON(f.lastModified)]

StringifyFilePair(p) == <<p[1], StringifyFileInfo(p[2])>>

StringifyListPair(p) == <<p[1], MapSeq(p[2], DropUndefined)>>

\* JSON.stringify of the payload
StringifyData(d) ==
    [files        |-> MapSeq(d.files, StringifyFilePair),
     methods      |-> MapSeq(d.methods, StringifyListPair),
     paths        |-> MapSeq(d.paths, StringifyListPair),
     dependencies |-> MapSeq(d.dependencies, StringifyListPair),
     lastIndexed  |-> DateToJSON(d.lastIndexed)]

\* JSON.stringify(entry, null, 2)
StringifyEntry(e) ==
    [tag       |-> "json",
     data      |-> StringifyData(e.data),
     timestamp |-> DateToJSON(e.timestamp),
     ttl       |-> e.ttl]

Corrupt == [tag |-> "corrupt"]

\* the reviver of CacheManager.get: the values under the keys 'timestamp'
\* and 'lastModified' become Date objects, every other value stays as parsed
\* a parse without the reviver: lastModified stays the string of the file
ReviveFileInfo_asParsed(f) == f

ReviveFileInfo(f) == [f EXCEPT !.lastModified = NewDate(f.lastModified)]

ReviveFilePair(p) == <<p[1], ReviveFileInfo(p[2])>>

ReviveData(d) == [d EXCEPT !.files = MapSeq(d.files, ReviveFilePair)]

ParseEntry(doc) ==
    [data      |-> ReviveData(doc.data),
     timestamp |-> NewDate(doc.timestamp),
     ttl       |-> doc.ttl]

(***************************************************************************)
(* CacheManager                                                            *)
(***************************************************************************)
DefaultTtl == 86400000

FileNameLimit == 200

\* key.replace(/[^a-zA-Z0-9]/g, '_')
ReplaceNonAlnum(s) == [i \in DOMAIN s |-> IF IsAlnum(s[i]) THEN s[i] ELSE "_"]

\* s.replace(/_+/g, '_'): of every run of underscores the first one stays
CollapseUnderscores(s) ==
    LET kept == SelectSeq([i \in 1..Len(s) |-> i],
                          LAMBDA i : ~(s[i] = "_" /\ i > 1 /\ s[i - 1] = "_"))
    IN [j \in 1..Len(kept) |-> s[kept[j]]]

SanitizeKey(key) == Substring0(CollapseUnderscores(ReplaceNonAlnum(key)), FileNameLimit)

\* join(cacheDir, `${sanitizeKey(key)}.json`), relative to the cache directory
CacheFile(key) == SanitizeKey(key) \o <<".", "j", "s", "o", "n">>

IsExpired(entry, t) ==
    IF entry.ttl = 0 THEN FALSE ELSE t - entry.timestamp.ms > entry.ttl

MapRemove(m, k) == [x \in DOMAIN m \ {k} |-> m[x]]

MapPut(m, k, v) == [x \in DOMAIN m \cup {k} |-> IF x = k THEN v ELSE m[x]]

EmptyMap == [x \in {} |-> Null]

\* CacheManager.delete: the tiers after it
CacheDelete(mem, dsk, key) ==
    [mem |-> MapRemove(mem, key), dsk |-> MapRemove(dsk, CacheFile(key))]

\* the disk tier of get without the promotion into memory
CacheReadFile_noPromote(mem, dsk, t, key) ==
    LET file == CacheFile(key) IN
    IF file \notin DOMAIN dsk \/ dsk[file] = Corrupt
    THEN [val |-> Null, mem |-> mem, dsk |-> dsk]
    ELSE LET entry == ParseEntry(dsk[file]) IN
         IF ~IsExpired(entry, t)
         THEN [val |-> entry.data, mem |-> mem, dsk |-> dsk]
         ELSE [val |-> Null] @@ CacheDelete(mem, dsk, key)

\* CacheManager.get past the memory tier: the file is read and parsed, an
\* unexpired entry is put into memory, an expired one is deleted
CacheReadFile(mem, dsk, t, key) ==
    LET file == CacheFile(key) IN
    IF file \notin DOMAIN dsk \/ dsk[file] = Corrupt
    THEN [val |-> Null, mem |-> mem, dsk |-> dsk]
    ELSE LET entry == ParseEntry(dsk[file]) IN
         IF ~IsExpired(entry, t)
         THEN [val |-> entry.data, mem |-> MapPut(mem, key, entry), dsk |-> dsk]
         ELSE [val |-> Null] @@ CacheDelete(mem, dsk, key)

\* get with the file consulted first and the memory tier on a miss
CacheGet_diskFirst(mem, dsk, t, key) ==
    IF CacheFile(key) \in DOMAIN dsk
    THEN CacheReadFile(mem, dsk, t, key)
    ELSE [val |-> Null, mem |-> mem, dsk |-> dsk]

\* CacheManager.get: the value returned and the tiers after it
CacheGet(mem, dsk, t, key) ==
    IF key \in DOMAIN mem /\ ~IsExpired(mem[key], t)
    THEN [val |-> mem[key].data, mem |-> mem, dsk |-> dsk]
    ELSE CacheReadFile(mem, dsk, t, key)

\* CacheManager.set: the tiers after it; writeOk is whether fs.writeFile
\* succeeded
CacheSet(mem, dsk, t, key, data, ttl, writeOk) ==
    LET entry == [data      |-> data,
                  timestamp |-> DateOf(t),
                  ttl       |-> IF ttl = 0 THEN DefaultTtl ELSE ttl]
    IN [mem |-> MapPut(mem, key, entry),
        dsk |-> IF writeOk THEN MapPut(dsk, CacheFile(key), StringifyEntry(entry))
                ELSE dsk]

(***************************************************************************)
(* Regular expressions.  The patterns the code compiles use four kinds of  *)
(* token: a literal character, '.' (one character), '.*' (any sequence)    *)
(* and '[^/]*' (any sequence without '/').  A match is anchored (^...$).   *)
(***************************************************************************)
Lit(c) == [t |-> "lit", c |-> c]

AnyOne == [t |-> "one", c |-> ""]

AnyStar == [t |-> "any", c |-> ""]

SegStar == [t |-> "seg", c |-> ""]

\* the tokens from the i-th on match s from its j-th character to its end
RECURSIVE MatchAt(_, _, _, _)
MatchAt(toks, i, s, j) ==
    IF i > Len(toks) THEN j > Len(s)
    ELSE IF toks[i].t = "lit"
    THEN j <= Len(s) /\ s[j] = toks[i].c /\ MatchAt(toks, i + 1, s, j + 1)
    ELSE IF toks[i].t = "one"
    THEN j <= Len(s) /\ MatchAt(toks, i + 1, s, j + 1)
    ELSE IF toks[i].t = "any"
    THEN \E k \in j..(Len(s) + 1) : MatchAt(toks, i + 1, s, k)
    ELSE \E k \in j..(Len(s) + 1) :
            /\ \A m \in j..(k - 1) : s[m] # Slash
            /\ MatchAt(toks, i + 1, s, k)

\* new RegExp(`^${pattern}$`).test(s)
RegexMatch(toks, s) == MatchAt(toks, 1, s, 1)

(***************************************************************************)
(* PathResolver.  A resolver is [projectRoot, tsConfig, packageJson]:      *)
(* tsConfig is Null or [baseUrl, paths], paths a sequence of               *)
(* <<pattern, targets>>; packageJson is Null or [imports], a sequence of   *)
(* <<pattern, target>> (Object.entries keeps the order of the document).   *)
(***************************************************************************)
Ext_ts == <<".", "t", "s">>

Ext_js == <<".", "j", "s">>

\* the extensions of /\.(js|ts|jsx|tsx|json)$/
KnownExts == {Ext_js, Ext_ts, <<".", "j", "s", "x">>, <<".", "t", "s", "x">>,
              <<".", "j", "s", "o", "n">>}

HasKnownExt(p) == \E e \in KnownExts : EndsWith(p, e)

\* basePath.replace(/\.(js|ts|jsx|tsx|json)$/, '')
WithoutExt(p) ==
    IF HasKnownExt(p)
    THEN LET e == CHOOSE x \in KnownExts : EndsWith(p, x) IN SubSeq(p, 1, Len(p) - Len(e))
    ELSE p

Dir_src == <<"s", "r", "c", "/">>

\* PathResolver.resolveToExistingFile
ResolveToExistingFile(r, basePath) ==
    IF EndsWith(basePath, Ext_js) THEN WithoutExt(basePath) \o Ext_ts
    ELSE IF ~HasKnownExt(basePath)
    THEN IF \/ Includes(basePath, <<Slash>> \o Dir_src)
            \/ StartsWith(Relative(r.projectRoot, basePath), Dir_src)
         THEN WithoutExt(basePath) \o Ext_ts
         ELSE WithoutExt(basePath) \o Ext_js
    ELSE basePath

\* PathResolver.matchesPattern: every '*' of the pattern becomes '.*'
ImportPatternRegex(pattern) ==
    [i \in DOMAIN pattern |-> IF pattern[i] = "*" THEN AnyStar ELSE Lit(pattern[i])]

MatchesImportPattern(importPath, pattern) ==
    IF IndexOf(pattern, "*") = 0 THEN importPath = pattern
    ELSE RegexMatch(ImportPatternRegex(pattern), importPath)

\* String.prototype.replace(from, to) for strings: the first occurrence
ReplaceFirst(s, from, to) ==
    IF Includes(s, from)
    THEN LET i == CHOOSE k \in 0..(Len(s) - Len(from)) :
                     /\ SubSeq(s, k + 1, k + Len(from)) = from
                     /\ \A j \in 0..(k - 1) : SubSeq(s, j + 1, j + Len(from)) # from
         IN SubSeq(s, 1, i) \o to \o SubSeq(s, i + Len(from) + 1, Len(s))
    ELSE s

\* PathResolver.replacePattern
ReplacePattern(importPath, pattern, target) ==
    IF IndexOf(pattern, "*") = 0 \/ IndexOf(target, "*") = 0 THEN target
    ELSE LET parts == Split(pattern, "*")
             prefix == parts[1]
             suffix == parts[2]
             rest == SubSeq(importPath, Len(prefix) + 1, Len(importPath))
             wildcard == IF suffix # <<>> /\ EndsWith(rest, suffix)
                         THEN SubSeq(rest, 1, Len(rest) - Len(suffix))
                         ELSE rest
         IN IF ~StartsWith(importPath, prefix) THEN target
            ELSE ReplaceFirst(target, <<"*">>, wildcard)

Pre_dotDist == <<".", "/", "d", "i", "s", "t", "/">>

Pre_dist == <<"d", "i", "s", "t", "/">>

\* the rewrite of a build-output target to the source directory
DistToSrc(p) ==
    IF StartsWith(p, Pre_dotDist) THEN ReplaceFirst(p, Pre_dotDist, <<".", "/">> \o Dir_src)
    ELSE IF StartsWith(p, Pre_dist) THEN ReplaceFirst(p, Pre_dist, Dir_src)
    ELSE p

\* PathResolver.resolvePackageImport
RECURSIVE ResolvePackageEntries(_, _, _)
ResolvePackageEntries(r, importPath, entries) ==
    IF entries = <<>> THEN Null
    ELSE IF MatchesImportPattern(importPath, entries[1][1])
    THEN ResolveToExistingFile(r,
            Resolve2(r.projectRoot,
                     DistToSrc(ReplacePattern(importPath, entries[1][1], entries[1][2]))))
    ELSE ResolvePackageEntries(r, importPath, Tail(entries))

ResolvePackageImport(r, importPath) ==
    IF r.packageJson = Null \/ r.packageJson.imports = <<>> THEN Null
    ELSE ResolvePackageEntries(r, importPath, r.packageJson.imports)

\* a relative specifier resolved against the project root
ResolveRelativeImport_fromRoot(r, importPath, fromDir) ==
    ResolveToExistingFile(r, Resolve2(r.projectRoot, importPath))

\* PathResolver.resolveRelativeImport
ResolveRelativeImport(r, importPath, fromDir) ==
    ResolveToExistingFile(r, Resolve2(fromDir, importPath))

\* compilerOptions.baseUrl || '.'
BaseUrl(r) == IF r.tsConfig.baseUrl = Undefined THEN <<".">> ELSE r.tsConfig.baseUrl

StripDotSlash(p) == IF StartsWith(p, <<".", "/">>) THEN SubSeq(p, 3, Len(p)) ELSE p

\* PathResolver.resolvePathMapping: the first target of the first matching
\* pattern that has one (resolveToExistingFile never returns null)
RECURSIVE ResolvePathEntries(_, _, _)
ResolvePathEntries(r, importPath, entries) ==
    IF entries = <<>> THEN Null
    ELSE IF MatchesImportPattern(importPath, entries[1][1]) /\ entries[1][2] # <<>>
    THEN ResolveToExistingFile(r,
            Resolve2(Resolve2(r.projectRoot, BaseUrl(r)),
                     StripDotSlash(ReplacePattern(importPath, entries[1][1],
                                                  entries[1][2][1]))))
    ELSE ResolvePathEntries(r, importPath, Tail(entries))

\* compilerOptions.paths is the sequence of its entries; an absent paths and
\* an empty one both resolve nothing
HasPathMapping(r) == r.tsConfig # Null /\ r.tsConfig.paths # <<>>

ResolvePathMapping(r, importPath) ==
    IF ~HasPathMapping(r) THEN Null
    ELSE ResolvePathEntries(r, importPath, r.tsConfig.paths)

\* resolveImportPath with an alias specifier that no package import resolves
\* handed on to the path mappings
ResolveImportPath_aliasFallsThrough(r, importPath, fromFile) ==
    IF StartsWith(importPath, <<"#">>) /\ ResolvePackageImport(r, importPath) # Null
    THEN ResolvePackageImport(r, importPath)
    ELSE IF StartsWith(importPath, <<".", "/">>) \/ StartsWith(importPath, <<".", ".", "/">>)
    THEN ResolveRelativeImport(r, importPath, Dirname(fromFile))
    ELSE IF IsAbsolute(importPath) THEN ResolveToExistingFile(r, importPath)
    ELSE IF HasPathMapping(r) THEN ResolvePathMapping(r, importPath)
    ELSE Null

\* PathResolver.resolveImportPath
ResolveImportPath(r, importPath, fromFile) ==
    IF StartsWith(importPath, <<"#">>) THEN ResolvePackageImport(r, importPath)
    ELSE IF StartsWith(importPath, <<".", "/">>) \/ StartsWith(importPath, <<".", ".", "/">>)
    THEN ResolveRelativeImport(r, importPath, Dirname(fromFile))
    ELSE IF IsAbsolute(importPath) THEN ResolveToExistingFile(r, importPath)
    ELSE IF HasPathMapping(r) THEN ResolvePathMapping(r, importPath)
    ELSE Null

\* PathResolver.normalizeFilePath
NormalizeFilePath(r, filePath) == Relative(r.projectRoot, Resolve(filePath))

(***************************************************************************)
(* CodeParser.  The parser tests every line against its regular            *)
(* expressions; a line of the model is the outcome of those tests: the     *)
(* kind of statement it holds and the captured groups.                     *)
(*   [kind |-> "import", spec]   import ... from '<spec>'                  *)
(*   [kind |-> "require", spec]  ... require('<spec>')                     *)
(***************************************************************************)
\* the Dependency pushed for an ES import (parseImports, first rule)
ImportEdge(r, spec, filePath, lineNo) ==
    LET resolved == IF r = Null THEN Null ELSE ResolveImportPath(r, spec, filePath) IN
    [from       |-> filePath,
     to         |-> spec,
     resolvedTo |-> IF resolved # Null THEN resolved ELSE spec,
     type       |-> "import",
     file       |-> filePath,
     line       |-> lineNo]

\* the Dependency pushed for a CommonJS require (parseImports, second rule)
RequireEdge(r, spec, filePath, lineNo) ==
    LET resolved == IF r = Null THEN Null ELSE ResolveImportPath(r, spec, filePath) IN
    [from       |-> filePath,
     to         |-> spec,
     resolvedTo |-> IF resolved # Null THEN NormalizeFilePath(r, resolved) ELSE spec,
     type       |-> "import",
     file       |-> filePath,
     line       |-> lineNo]

\* CodeParser.parseImports: the dependencies of the lines from lineNo on
RECURSIVE ParseImportsFrom(_, _, _, _)
ParseImportsFrom(r, lines, filePath, lineNo) ==
    IF lineNo > Len(lines) THEN <<>>
    ELSE (IF lines[lineNo].kind = "import"
          THEN <<ImportEdge(r, lines[lineNo].spec, filePath, lineNo)>>
          ELSE IF lines[lineNo].kind = "require"
          THEN <<RequireEdge(r, lines[lineNo].spec, filePath, lineNo)>>
          ELSE <<>>)
         \o ParseImportsFrom(r, lines, filePath, lineNo + 1)

ParseImports(r, lines, filePath) == ParseImportsFrom(r, lines, filePath, 1)

\* the MethodInfo records of a line (parseMethods); column, parameters and
\* signature, plain values every copy keeps, are left out of the record
LineMethods(line, filePath, lineNo) ==
    IF line.kind = "function"
    THEN <<[name       |-> line.name,
            type       |-> "function",
            file       |-> filePath,
            line       |-> lineNo,
            returnType |-> line.returnType,
            isAsync    |-> line.isAsync]>>
    ELSE IF line.kind = "class"
    THEN <<[name |-> line.name, type |-> "class", file |-> filePath, line |-> lineNo]>>
    ELSE <<>>

\* the PathInfo record of a route line
RouteRecord(line, filePath, lineNo) ==
    [path |-> line.path, method |-> line.verb, file |-> filePath, line |-> lineNo]

\* parsePaths: a '.get("/x"' line passes the Hono test and the Express test,
\* which are the same expression, and is pushed by both
LinePaths(line, filePath, lineNo) ==
    IF line.kind = "route"
    THEN <<RouteRecord(line, filePath, lineNo), RouteRecord(line, filePath, lineNo)>>
    ELSE IF line.kind = "decorator"
    THEN <<RouteRecord(line, filePath, lineNo)>>
    ELSE <<>>

RECURSIVE ParseMethodsFrom(_, _, _)
ParseMethodsFrom(lines, filePath, lineNo) ==
    IF lineNo > Len(lines) THEN <<>>
    ELSE LineMethods(lines[lineNo], filePath, lineNo)
         \o ParseMethodsFrom(lines, filePath, lineNo + 1)

RECURSIVE ParsePathsFrom(_, _, _)
ParsePathsFrom(lines, filePath, lineNo) ==
    IF lineNo > Len(lines) THEN <<>>
    ELSE LinePaths(lines[lineNo], filePath, lineNo)
         \o ParsePathsFrom(lines, filePath, lineNo + 1)

\* CodeParser.parseFile on the lines readFile returned
ParseFile(r, lines, filePath) ==
    [methods      |-> ParseMethodsFrom(lines, filePath, 1),
     paths        |-> ParsePathsFrom(lines, filePath, 1),
     dependencies |-> ParseImports(r, lines, filePath)]

\* CodeParser.shouldParseFile
ShouldParseFile(filePath) ==
    \/ EndsWith(filePath, Ext_ts)
    \/ EndsWith(filePath, <<".", "t", "s", "x">>)
    \/ EndsWith(filePath, Ext_js)
    \/ EndsWith(filePath, <<".", "j", "s", "x">>)
    \/ EndsWith(filePath, <<".", "m", "j", "s">>)

(***************************************************************************)
(* A JavaScript Map: the keys in insertion order and the value of each.    *)
(***************************************************************************)
NewMap == [keys |-> <<>>, at |-> EmptyMap]

MapHas(m, k) == k \in DOMAIN m.at

\* Map.prototype.set: a new key goes last, a known key keeps its place
MapSet(m, k, v) ==
    [keys |-> IF MapHas(m, k) THEN m.keys ELSE Append(m.keys, k),
     at   |-> MapPut(m.at, k, v)]

\* Array.from(map.entries())
Entries(m) == [i \in DOMAIN m.keys |-> <<m.keys[i], m.at[m.keys[i]]>>]

\* new Map(pairs)
RECURSIVE MapOf(_)
MapOf(pairs) ==
    IF pairs = <<>> THEN NewMap
    ELSE LET n == Len(pairs) IN
         MapSet(MapOf(SubSeq(pairs, 1, n - 1)), pairs[n][1], pairs[n][2])

\* the values of the map, concatenated in key order (getAllMethods and the like)
RECURSIVE Flatten(_)
Flatten(pairs) == IF pairs = <<>> THEN <<>> ELSE pairs[1][2] \o Flatten(Tail(pairs))

(***************************************************************************)
(* The index of ProjectIndexer                                             *)
(***************************************************************************)
\* the constructor's indexData
NewIndexData ==
    [files |-> NewMap, methods |-> NewMap, paths |-> NewMap, dependencies |-> NewMap,
     lastIndexed |-> DateOf(0)]

\* ProjectIndexer.clearIndexData
\* clearIndexData that leaves the file records
ClearIndexData_keepsFiles(d) ==
    [d EXCEPT !.methods = NewMap, !.paths = NewMap, !.dependencies = NewMap]

ClearIndexData(d) ==
    [d EXCEPT !.files = NewMap, !.methods = NewMap, !.paths = NewMap,
              !.dependencies = NewMap]

\* ProjectIndexer.serializeIndexData
SerializeIndexData(d) ==
    [files        |-> Entries(d.files),
     methods      |-> Entries(d.methods),
     paths        |-> Entries(d.paths),
     dependencies |-> Entries(d.dependencies),
     lastIndexed  |-> d.lastIndexed]

\* ProjectIndexer.deserializeIndexData
DeserializeIndexData(data) ==
    [files        |-> MapOf(data.files),
     methods      |-> MapOf(data.methods),
     paths        |-> MapOf(data.paths),
     dependencies |-> MapOf(data.dependencies),
     lastIndexed  |-> NewDate(data.lastIndexed)]

\* ProjectIndexer.getStats, without the duration
GetStats(d) ==
    [totalFiles        |-> Len(d.files.keys),
     totalMethods      |-> Len(Flatten(Entries(d.methods))),
     totalPaths        |-> Len(Flatten(Entries(d.paths))),
     totalDependencies |-> Len(Flatten(Entries(d.dependencies)))]

(***************************************************************************)
(* File discovery                                                          *)
(***************************************************************************)
\* the characters of the class [.+^${}()|[\]\\]
GlobEscaped == {".", "+", "^", "$", "{", "}", "(", ")", "|", "[", "]", "\\"}

\* pattern.replace(/[.+^${}()|[\]\\]/g, '\\$&')
RECURSIVE EscapeGlob(_)
EscapeGlob(s) ==
    IF s = <<>> THEN <<>>
    ELSE (IF s[1] \in GlobEscaped THEN <<"\\", s[1]>> ELSE <<s[1]>>) \o EscapeGlob(Tail(s))

\* the text that stands for '**' between the two replacements of '*'
Placeholder ==
    <<"_", "_", "_", "D", "O", "U", "B", "L", "E", "S", "T", "A", "R", "_", "_", "_">>

\* ProjectIndexer.matchesPattern, the source of the regular expression of
\* a glob: the special characters but '*' and '?' are escaped, '**' becomes
\* the placeholder, '*' becomes '[^/]*', the placeholder becomes '.*' and
\* '?' becomes '.'
GlobSource(pattern) ==
    ReplaceAll(
        ReplaceAll(
            ReplaceAll(
                ReplaceAll(EscapeGlob(BackslashToSlash(pattern)), <<"*", "*">>, Placeholder),
                <<"*">>, <<"[", "^", "/", "]", "*">>),
            Placeholder, <<".", "*">>),
        <<"?">>, <<".">>)

\* new RegExp(source) for such a source: an escaped character, '[^/]*',
\* '.*', '.' or a plain character
RECURSIVE CompileGlob(_)
CompileGlob(source) ==
    IF source = <<>> THEN <<>>
    ELSE IF source[1] = "\\"
    THEN <<Lit(source[2])>> \o CompileGlob(SubSeq(source, 3, Len(source)))
    ELSE IF StartsWith(source, <<"[", "^", "/", "]", "*">>)
    THEN <<SegStar>> \o CompileGlob(SubSeq(source, 6, Len(source)))
    ELSE IF StartsWith(source, <<".", "*">>)
    THEN <<AnyStar>> \o CompileGlob(SubSeq(source, 3, Len(source)))
    ELSE IF source[1] = "."
    THEN <<AnyOne>> \o CompileGlob(Tail(source))
    ELSE <<Lit(source[1])>> \o CompileGlob(Tail(source))

GlobRegex(pattern) == CompileGlob(GlobSource(pattern))

MatchesPattern(filePath, pattern) ==
    RegexMatch(GlobRegex(pattern), BackslashToSlash(filePath))

\* shouldInclude with the include list consulted before the exclude list
ShouldInclude_includeFirst(projectPath, options, filePath) ==
    LET relativePath == Relative(projectPath, filePath) IN
    IF \E i \in DOMAIN options.includePatterns :
          MatchesPattern(relativePath, options.includePatterns[i])
    THEN TRUE
    ELSE IF options.includePatterns = <<>>
    THEN ~\E i \in DOMAIN options.excludePatterns :
             MatchesPattern(relativePath, options.excludePatterns[i])
    ELSE FALSE

\* findFiles.shouldInclude
ShouldInclude(projectPath, options, filePath) ==
    LET relativePath == Relative(projectPath, filePath) IN
    IF \E i \in DOMAIN options.excludePatterns :
          MatchesPattern(relativePath, options.excludePatterns[i])
    THEN FALSE
    ELSE IF options.includePatterns = <<>> THEN TRUE
    ELSE \E i \in DOMAIN options.includePatterns :
            MatchesPattern(relativePath, options.includePatterns[i])

\* findFiles.walkDirectory: tree is the files of the disk in the order the
\* walk meets them; the walk reaches those below projectPath
WalkDirectory(tree, projectPath) ==
    LET Below(f) == StartsWith(f.path, projectPath \o <<Slash>>) IN SelectSeq(tree, Below)

\* ProjectIndexer.findFiles: the paths pushed to allFiles
FindFiles(tree, projectPath, options) ==
    LET Kept(f) == ShouldInclude(projectPath, options, f.path) /\ ShouldParseFile(f.path)
    IN SelectSeq(WalkDirectory(tree, projectPath), Kept)

(***************************************************************************)
(* ProjectIndexer.processFile, in its two asynchronous halves              *)
(***************************************************************************)
\* up to files.set: the FileInfo of a file fs.stat succeeded on; the catch
\* block of processFile logs a failure, and nothing of the file is stored
ProcessFileStat(d, f, projectRoot) ==
    IF f.fault = "stat" THEN d ELSE
    [d EXCEPT !.files =
        MapSet(@, f.path,
               [path         |-> f.path,
                name         |-> Basename(f.path),
                extension    |-> Extname(f.path),
                size         |-> f.size,
                lastModified |-> DateOf(f.mtime),
                isDirectory  |-> FALSE,
                relativePath |-> Relative(projectRoot, f.path)])]

\* the three lists of a parsed file are stored when they are not empty
StoreParsed(d, filePath, parsed) ==
    [d EXCEPT
       !.methods = IF parsed.methods = <<>> THEN @
                   ELSE MapSet(@, filePath, parsed.methods),
       !.paths = IF parsed.paths = <<>> THEN @
                 ELSE MapSet(@, filePath, parsed.paths),
       !.dependencies = IF parsed.dependencies = <<>> THEN @
                        ELSE MapSet(@, filePath, parsed.dependencies)]

\* from parseFile on; a failure of readFile or of the extraction ends in
\* the catch block
ProcessFileParse(d, r, f) ==
    IF f.fault # "none" \/ ~ShouldParseFile(f.path) THEN d
    ELSE StoreParsed(d, f.path, ParseFile(r, f.lines, f.path))

\* the files of a batch, their stats completing in one order and their
\* reads in another
\* the batch given up at the first file whose stat fails
RECURSIVE StatAll_stopAtFault(_, _, _, _)
StatAll_stopAtFault(d, files, order, projectRoot) ==
    IF order = <<>> \/ files[order[1]].fault = "stat" THEN d
    ELSE StatAll_stopAtFault(ProcessFileStat(d, files[order[1]], projectRoot), files,
                             Tail(order), projectRoot)

RECURSIVE StatAll(_, _, _, _)
StatAll(d, files, order, projectRoot) ==
    IF order = <<>> THEN d
    ELSE StatAll(ProcessFileStat(d, files[order[1]], projectRoot), files, Tail(order),
                 projectRoot)

RECURSIVE ParseAll(_, _, _, _)
ParseAll(d, r, files, order) ==
    IF order = <<>> THEN d
    ELSE ParseAll(ProcessFileParse(d, r, files[order[1]]), r, files, Tail(order))

\* the orders in which n concurrent operations can complete
Orders(n) == {o \in [1..n -> 1..n] : \A i, j \in 1..n : o[i] = o[j] => i = j}

(***************************************************************************)
(* PathResolver.initialize: tsconfig.json and package.json are looked up   *)
(* in the project root and in at most MaxLevelsUp directories above it.    *)
(* configs maps the path of a configuration file to its parsed document.   *)
(***************************************************************************)
MaxLevelsUp == 2

\* a configuration file that JSON.parse rejects
Malformed == [tag |-> "malformed"]

\* the search going on to the top of the filesystem
RECURSIVE SearchParentDirs_unbounded(_, _, _, _, _)
SearchParentDirs_unbounded(configs, dir, filename, levelsLeft, reads) ==
    LET path == Join(dir, filename) IN
    IF path \in DOMAIN configs /\ configs[path] # Malformed
    THEN [doc |-> configs[path], reads |-> Append(reads, path)]
    ELSE IF Dirname(dir) = dir THEN [doc |-> Null, reads |-> Append(reads, path)]
    ELSE SearchParentDirs_unbounded(configs, Dirname(dir), filename, levelsLeft,
                                    Append(reads, path))

\* the reads of findFileInParentDirs from dir upwards and the document it
\* returns: a file that is absent or does not parse is passed over
RECURSIVE SearchParentDirs(_, _, _, _, _)
SearchParentDirs(configs, dir, filename, levelsLeft, reads) ==
    LET path == Join(dir, filename) IN
    IF path \in DOMAIN configs /\ configs[path] # Malformed
    THEN [doc |-> configs[path], reads |-> Append(reads, path)]
    ELSE IF levelsLeft = 0 \/ Dirname(dir) = dir
    THEN [doc |-> Null, reads |-> Append(reads, path)]
    ELSE SearchParentDirs(configs, Dirname(dir), filename, levelsLeft - 1,
                          Append(reads, path))

FindFileInParentDirs(configs, dir, filename, levelsLeft) ==
    SearchParentDirs(configs, dir, filename, levelsLeft, <<>>).doc

File_tsconfig == <<"t", "s", "c", "o", "n", "f", "i", "g", ".", "j", "s", "o", "n">>

File_package == <<"p", "a", "c", "k", "a", "g", "e", ".", "j", "s", "o", "n">>

\* new PathResolver(projectRoot) and initialize()
NewPathResolver(configs, projectRoot) ==
    [projectRoot |-> Resolve(projectRoot),
     tsConfig    |-> FindFileInParentDirs(configs, Resolve(projectRoot), File_tsconfig,
                                          MaxLevelsUp),
     packageJson |-> FindFileInParentDirs(configs, Resolve(projectRoot), File_package,
                                          MaxLevelsUp)]

(***************************************************************************)
(* The cache manager on its own: set, get, delete and clear on a few keys, *)
(* the clock, a restart of the process (the memory tier is lost, the       *)
(* cache directory stays) and damage to a file of the cache directory.     *)
(***************************************************************************)
MaxNow == 2

\* how many times the clock of the engine passes the life of a snapshot
MaxAge == 1

\* the ttl arguments of set
Ttls == {1}

\* two keys with the same sanitized file name, a_b.json
CacheKeys == {<<"a", "-", "b">>, <<"a", "_", "b">>}

EmptyData(ms) ==
    [files |-> <<>>, methods |-> <<>>, paths |-> <<>>, dependencies |-> <<>>,
     lastIndexed |-> DateOf(ms)]

Payloads == {EmptyData(0), EmptyData(1)}

InitCache ==
    /\ cache = EmptyMap
    /\ disk = EmptyMap
    /\ now = 0
    /\ written = EmptyMap
    /\ call = [op |-> "init"]
    /\ input = Null
    /\ indexData = Null
    /\ pathResolver = Null
    /\ fsVersion = 1
    /\ faults = EmptyMap
    /\ task = Null

SetOp(key, data, ttl, writeOk) ==
    LET r == CacheSet(cache, disk, now, key, data, ttl, writeOk) IN
    /\ cache' = r.mem
    /\ disk' = r.dsk
    /\ now' = now
    /\ input' = input
    /\ written' = MapPut(written, key, r.mem[key])
    /\ call' = [op |-> "set", key |-> key]
    /\ UNCHANGED engineVars

GetOp(key) ==
    LET r == CacheGet(cache, disk, now, key) IN
    /\ cache' = r.mem
    /\ disk' = r.dsk
    /\ now' = now
    /\ input' = input
    /\ written' = written
    /\ call' = [op |-> "get", key |-> key, val |-> r.val]
    /\ UNCHANGED engineVars

DeleteOp(key) ==
    LET r == CacheDelete(cache, disk, key) IN
    /\ cache' = r.mem
    /\ disk' = r.dsk
    /\ now' = now
    /\ input' = input
    /\ written' = MapRemove(written, key)
    /\ call' = [op |-> "delete", key |-> key]
    /\ UNCHANGED engineVars

\* CacheManager.clear
ClearOp ==
    /\ cache' = EmptyMap
    /\ disk' = EmptyMap
    /\ now' = now
    /\ input' = input
    /\ written' = EmptyMap
    /\ call' = [op |-> "clear"]
    /\ UNCHANGED engineVars

Tick ==
    /\ now < MaxNow
    /\ now' = now + 1
    /\ call' = [op |-> "tick"]
    /\ UNCHANGED <<cache, disk, written, input, engineVars>>

Restart ==
    /\ cache' = EmptyMap
    /\ call' = [op |-> "restart"]
    /\ UNCHANGED <<disk, now, written, input, engineVars>>

DamageFile ==
    /\ \E f \in DOMAIN disk : disk' = [disk EXCEPT ![f] = Corrupt]
    /\ call' = [op |-> "damage"]
    /\ UNCHANGED <<cache, now, written, input, engineVars>>

NextCache ==
    \/ \E key \in CacheKeys, data \in Payloads, ttl \in Ttls, writeOk \in BOOLEAN :
          SetOp(key, data, ttl, writeOk)
    \/ \E key \in CacheKeys : GetOp(key)
    \/ \E key \in CacheKeys : DeleteOp(key)
    \/ ClearOp
    \/ Tick
    \/ Restart
    \/ DamageFile

SpecCache == InitCache /\ [][NextCache]_vars

\* the payload as get returns it: the stored object from the memory tier,
\* its parsed JSON form from the persisted tier
SameData(val, data) == val = data \/ val = ReviveData(StringifyData(data))

\* a tier holds entry e under key
Held(key, e) ==
    \/ key \in DOMAIN cache /\ cache[key] = e
    \/ CacheFile(key) \in DOMAIN disk /\ disk[CacheFile(key)] = StringifyEntry(e)

(* C3: for the entry e written by the last set(key, value, ttl), get(key)  *)
(* returns value while now - e.timestamp <= ttl and a tier holds e, and    *)
(* returns null once now - e.timestamp > ttl.                              *)
C3_GetHonoursTtl ==
    [][\A key \in CacheKeys :
          (call'.op = "get" /\ call'.key = key /\ key \in DOMAIN written) =>
              LET e == written[key] IN
              /\ (now - e.timestamp.ms > e.ttl) => call'.val = Null
              /\ (now - e.timestamp.ms <= e.ttl /\ Held(key, e)) =>
                     SameData(call'.val, e.data)]_vars

(***************************************************************************)
(* Import extraction on its own: one source file holding one import or     *)
(* require line is parsed with a resolver of a given configuration.        *)
(***************************************************************************)
Root_p == <<"/", "p">>

Root_q == <<"/", "q">>

Root_srcp == <<"/", "s", "r", "c", "/", "p">>

ResolveRoots == {Root_p, Root_srcp}

\* the importing file, relative to the project root
ResolveFromFiles ==
    {<<"s", "r", "c", "/", "a", ".", "t", "s">>,
     <<"s", "r", "c", "/", "s", "u", "b", "/", "d", ".", "t", "s">>,
     <<"l", "i", "b", "/", "c", ".", "j", "s">>,
     <<"m", ".", "t", "s">>}

ResolveSpecifiers ==
    {<<".", "/", "b">>,
     <<".", ".", "/", "l", "i", "b", "/", "x">>,
     <<".", ".", "/", "s", "r", "c", "/", "d">>,
     <<".", "/", "s", "u", "b", "/", "e">>,
     <<".", "/", "b", ".", "j", "s">>,
     <<".", "/", "c", ".", "j", "s", "o", "n">>,
     <<".", "/">>,
     <<"f", "s">>,
     <<"#", "r", "o", "o", "t", "/", "x">>,
     <<"/", "a", "b", "s", "/", "y">>,
     <<".", "/", "b", ".", "c", "o", "n", "f", "i", "g">>,
     <<"@", "a", "p", "p", "/", "u", "t", "i", "l">>}

\* tsconfig.json with paths {"@app/*": ["src/app/*"]}
TsConfigWithPaths ==
    [baseUrl |-> Undefined,
     paths   |-> << <<<<"@", "a", "p", "p", "/", "*">>,
                      << <<"s", "r", "c", "/", "a", "p", "p", "/", "*">> >> >> >>]

\* package.json with imports {"#root/*": "./dist/*"}
PackageWithImports ==
    [imports |-> << <<<<"#", "r", "o", "o", "t", "/", "*">>,
                      <<".", "/", "d", "i", "s", "t", "/", "*">> >> >>]

ResolveInputs ==
    [root        : ResolveRoots,
     fromFile    : ResolveFromFiles,
     spec        : ResolveSpecifiers,
     kind        : {"import", "require"},
     tsConfig    : {Null, TsConfigWithPaths},
     packageJson : {Null, PackageWithImports}]

InputResolver == [projectRoot |-> Resolve(input.root),
                  tsConfig    |-> input.tsConfig,
                  packageJson |-> input.packageJson]

InputFile == Join(InputResolver.projectRoot, input.fromFile)

InitResolve ==
    /\ input \in ResolveInputs
    /\ call = [op |-> "init"]
    /\ cache = EmptyMap
    /\ disk = EmptyMap
    /\ now = 0
    /\ written = EmptyMap
    /\ indexData = Null
    /\ pathResolver = Null
    /\ fsVersion = 1
    /\ faults = EmptyMap
    /\ task = Null

\* CodeParser.parseImports on a file whose second line is the import
ParseImportsOp ==
    /\ call.op = "init"
    /\ call' = [op   |-> "parseImports",
                deps |-> ParseImports(InputResolver,
                                      <<[kind |-> "other"],
                                        [kind |-> input.kind, spec |-> input.spec]>>,
                                      InputFile)]
    /\ UNCHANGED <<input, cacheVars, engineVars>>

NextResolve == ParseImportsOp

SpecResolve == InitResolve /\ [][NextResolve]_vars

IsRelativeSpec(spec) == StartsWith(spec, <<".", "/">>) \/ StartsWith(spec, <<".", ".", "/">>)

\* the specifier's last segment has no extension
NoExtension(spec) == IndexOf(Basename(spec), ".") = 0 \/ Basename(spec) = <<".", ".">>

\* the importing file lies under <root>/src
UnderRootSrc == StartsWith(input.fromFile, Dir_src)

\* the path has a directory named src above its last segment
HasSrcDirectory(p) ==
    \E i \in 1..(Len(AbsSegs(p)) - 1) : AbsSegs(p)[i] = <<"s", "r", "c">>

C10_Case ==
    /\ call.op = "parseImports"
    /\ input.kind = "import"
    /\ IsRelativeSpec(input.spec)
    /\ NoExtension(input.spec)
    /\ UnderRootSrc

File_a == <<"/", "p", "/", "s", "r", "c", "/", "a", ".", "t", "s">>

File_b == <<"/", "p", "/", "s", "r", "c", "/", "b", ".", "t", "s">>

Name_run == <<"r", "u", "n">>

Name_Config == <<"C", "o", "n", "f", "i", "g">>

Spec_b == <<".", "/", "b">>

Spec_util == <<"@", "a", "p", "p", "/", "u", "t", "i", "l">>

Lines_a1 ==
    <<[kind |-> "import", spec |-> Spec_b],
      [kind |-> "function", name |-> Name_run, returnType |-> Undefined, isAsync |-> TRUE],
      [kind |-> "route", verb |-> "GET", path |-> <<"/", "a", "p", "i">>]>>

Lines_a2 ==
    <<[kind |-> "import", spec |-> Spec_util],
      [kind |-> "require", spec |-> Spec_b],
      [kind |-> "function", name |-> Name_run, returnType |-> Undefined, isAsync |-> TRUE]>>

Lines_b == <<[kind |-> "other"], [kind |-> "class", name |-> Name_Config]>>

\* the files of the disk, in the order a walk from / meets them; the edit
\* rewrites a.ts
ProjectTree(v) ==
    <<[path  |-> <<"/", "p", "/", "m", ".", "t", "s">>,
       lines |-> <<[kind |-> "function", name |-> <<"m">>, returnType |-> Undefined,
                    isAsync |-> FALSE]>>,
       size  |-> 1, mtime |-> 0],
      [path  |-> <<"/", "p", "/", "n", "o", "d", "e", "_", "m", "o", "d", "u", "l", "e",
                   "s", "/", "x", "/", "i", ".", "j", "s">>,
       lines |-> <<[kind |-> "class", name |-> <<"X">>]>>,
       size  |-> 1, mtime |-> 0],
      [path  |-> File_a,
       lines |-> IF v = 1 THEN Lines_a1 ELSE Lines_a2,
       size  |-> IF v = 1 THEN 3 ELSE 4, mtime |-> IF v = 1 THEN 0 ELSE 1],
      [path  |-> <<"/", "p", "/", "s", "r", "c", "/", "c", ".", "j", "s", "o", "n">>,
       lines |-> <<[kind |-> "other"]>>, size |-> 1, mtime |-> 0],
      [path  |-> <<"/", "p", "/", "s", "r", "c", "/", "t", ".", "d", ".", "t", "s">>,
       lines |-> <<[kind |-> "class", name |-> <<"T">>]>>, size |-> 1, mtime |-> 0],
      [path  |-> <<"/", "q", "/", "z", ".", "t", "s">>,
       lines |-> <<[kind |-> "class", name |-> <<"Z">>]>>, size |-> 1, mtime |-> 0]>>

\* the failures a file answers with: none, fs.stat rejects, fs.readFile
\* rejects, the extraction throws
FaultKinds == {"none", "stat", "read", "parse"}

\* the files of the disk with the failure each answers with
WithFaults(tree, fs) ==
    [i \in DOMAIN tree |->
        [path  |-> tree[i].path, lines |-> tree[i].lines, size |-> tree[i].size,
         mtime |-> tree[i].mtime,
         fault |-> IF tree[i].path \in DOMAIN fs THEN fs[tree[i].path] ELSE "none"]]

\* the configuration files of the disk: the edit adds /p/tsconfig.json
ProjectConfigs(v) ==
    IF v = 1 THEN EmptyMap
    ELSE [f \in {Join(Root_p, File_tsconfig)} |-> TsConfigWithPaths]

Pat_ts == <<"*", "*", "/", "*", ".", "t", "s">>

Pat_js == <<"*", "*", "/", "*", ".", "j", "s">>

Pat_json == <<"*", "*", "/", "*", ".", "j", "s", "o", "n">>

Pat_node_modules == <<"n", "o", "d", "e", "_", "m", "o", "d", "u", "l", "e", "s", "/", "*", "*">>

Pat_dist == <<"d", "i", "s", "t", "/", "*", "*">>

Pat_dts == <<"*", "*", "/", "*", ".", "d", ".", "t", "s">>

\* the defaults of the analyze_project handler
DefaultIncludePatterns == <<Pat_ts, Pat_js, Pat_json>>

DefaultExcludePatterns == <<Pat_node_modules, Pat_dist, Pat_dts>>

\* a destructured property with a default
Default(args, k, d) == IF k \in DOMAIN args THEN args[k] ELSE d

\* JSON.stringify of a string without characters to escape, and of a list
Quote(str) == <<"\"">> \o str \o <<"\"">>

StringifyStrings(list) == <<"[">> \o JoinWith(MapSeq(list, Quote), ",") \o <<"]">>

\* JSON.stringify(options)
StringifyOptions(o) ==
    <<"{", "\"", "p", "r", "o", "j", "e", "c", "t", "P", "a", "t", "h", "\"", ":">>
    \o Quote(o.projectPath)
    \o <<",", "\"", "i", "n", "c", "l", "u", "d", "e", "P", "a", "t", "t", "e", "r",
         "n", "s", "\"", ":">>
    \o StringifyStrings(o.includePatterns)
    \o <<",", "\"", "e", "x", "c", "l", "u", "d", "e", "P", "a", "t", "t", "e", "r",
         "n", "s", "\"", ":">>
    \o StringifyStrings(o.excludePatterns)
    \o <<",", "\"", "f", "o", "r", "c", "e", "R", "e", "i", "n", "d", "e", "x", "\"", ":">>
    \o (IF o.forceReindex THEN <<"t", "r", "u", "e">> ELSE <<"f", "a", "l", "s", "e">>)
    \o <<"}">>

\* `project-${projectPath}-${JSON.stringify(options)}`
CacheKey(projectPath, options) ==
    <<"p", "r", "o", "j", "e", "c", "t", "-">> \o projectPath \o <<"-">>
    \o StringifyOptions(options)

\* the options object the analyze_project handler passes to the indexer
AnalysisOptions(args) ==
    [projectPath     |-> args.projectPath,
     includePatterns |-> Default(args, "includePatterns", DefaultIncludePatterns),
     excludePatterns |-> Default(args, "excludePatterns", DefaultExcludePatterns),
     forceReindex    |-> Default(args, "forceReindex", FALSE)]

\* the 24 hours analyzeProject passes to cache.set
SnapshotTtl == 86400000

\* ProjectIndexer.analyzeProject, the cached branch:
\* `this.deserializeIndexData(cachedData)`
Restore(cachedData) == DeserializeIndexData(cachedData)

\* ProjectIndexer.analyzeProject, the indexing branch, from clearIndexData to
\* the assignment of lastIndexed: files is what findFiles returned,
\* statOrder and readOrder are the orders in which the stats and the reads
\* of the batch complete
Reindex(d, t, files, r, projectPath, statOrder, readOrder) ==
    [ParseAll(StatAll(ClearIndexData(d), files, statOrder, projectPath), r, files, readOrder)
        EXCEPT !.lastIndexed = DateOf(t)]

\* `await this.cache.set(cacheKey, this.serializeIndexData(), 24 * 60 * 60 * 1000)`
SaveSnapshot(got, t, cacheKey, indexed, writeOk) ==
    CacheSet(got.mem, got.dsk, t, cacheKey, SerializeIndexData(indexed), SnapshotTtl, writeOk)

\* the cached branch taken for a forced run only
UseCached_whenForced(cachedData, forceReindex) == cachedData # Null /\ forceReindex

\* `if (cachedData && !options.forceReindex)`
UseCached(cachedData, forceReindex) == cachedData # Null /\ ~forceReindex

Path_rel == <<".", ".", "/", "p">>

\* the arguments of an analyze_project call; Undefined is a call without
\* an arguments object
AnalyzeArgs ==
    {Undefined,
     [projectPath |-> Root_p],
     [projectPath |-> Root_p, forceReindex |-> TRUE],
     [projectPath |-> Path_rel]}

Init ==
    /\ cache = EmptyMap
    /\ disk = EmptyMap
    /\ now = 0
    /\ written = EmptyMap
    /\ call = [op |-> "init"]
    /\ input = Null
    /\ indexData = NewIndexData
    /\ pathResolver = Null
    /\ fsVersion = 1
    /\ faults = EmptyMap
    /\ task = Null

\* the analyze_project tool: the dispatch of the CallTool handler, the
\* handler of the server and ProjectIndexer.analyzeProject
Analyze(args) ==
    LET a == IF args = Undefined THEN EmptyMap ELSE args IN
    IF "projectPath" \notin DOMAIN a
    THEN \* resolve(undefined) throws, the dispatch answers with an McpError
         /\ call' = [op |-> "analyze_project", args |-> args, outcome |-> "error"]
         /\ UNCHANGED <<cacheVars, input, engineVars>>
    ELSE \E options \in {AnalysisOptions(a)} :
         \E projectPath \in {Resolve(options.projectPath)} :
         \E r \in {NewPathResolver(ProjectConfigs(fsVersion), projectPath)} :
         \E cacheKey \in {CacheKey(projectPath, options)} :
         \E got \in {CacheGet(cache, disk, now, cacheKey)} :
         \E cached \in {UseCached(got.val, options.forceReindex)} :
         \E files \in {IF cached THEN <<>>
                       ELSE FindFiles(WithFaults(ProjectTree(fsVersion), faults),
                                      projectPath, options)} :
         \E statOrder \in Orders(Len(files)), readOrder \in Orders(Len(files)) :
         \E writeOk \in BOOLEAN :
         \E indexed \in {IF cached THEN Restore(got.val)
                         ELSE Reindex(indexData, now, files, r, projectPath,
                                      statOrder, readOrder)} :
         \E put \in {IF cached THEN got
                     ELSE SaveSnapshot(got, now, cacheKey, indexed, writeOk)} :
            /\ indexData' = indexed
            /\ pathResolver' = r
            /\ cache' = put.mem
            /\ disk' = put.dsk
            /\ written' = written
            /\ call' = [op         |-> "analyze_project",
                        args       |-> args,
                        outcome    |-> "success",
                        result     |-> GetStats(indexed),
                        configRead |-> TRUE,
                        cacheRead  |-> TRUE,
                        restored   |-> cached,
                        walked     |-> ~cached,
                        saved      |-> ~cached /\ writeOk]
            /\ UNCHANGED <<now, input, fsVersion, faults, task>>

\* the project is edited: a.ts is rewritten and a tsconfig.json appears
EditFiles ==
    /\ fsVersion = 1
    /\ fsVersion' = 2
    /\ call' = [op |-> "edit"]
    /\ UNCHANGED <<cacheVars, input, indexData, pathResolver, faults, task>>

\* time passes: a millisecond more than the 24 hours of a snapshot
Elapse ==
    /\ now < MaxAge * (SnapshotTtl + 1)
    /\ now' = now + SnapshotTtl + 1
    /\ call' = [op |-> "elapse"]
    /\ UNCHANGED <<cache, disk, written, input, engineVars>>

\* the server process is restarted: the indexer and the memory tier are new
RestartServer ==
    /\ cache' = EmptyMap
    /\ indexData' = NewIndexData
    /\ pathResolver' = Null
    /\ call' = [op |-> "restart"]
    /\ UNCHANGED <<disk, now, written, input, fsVersion, faults, task>>

Next ==
    \/ \E args \in AnalyzeArgs : Analyze(args)
    \/ EditFiles
    \/ Elapse
    \/ RestartServer

Spec == Init /\ [][Next]_vars

\* an analyze_project call with a projectPath is the step taken
AnalyzeCalled == call'.op = "analyze_project" /\ "projectPath" \in DOMAIN call'.args

(* C1: an analyze_project call whose projectPath is not absolute returns a *)
(* validation failure, reads no configuration file, no cache entry and no  *)
(* directory, and leaves the index and both tiers of the cache unchanged.  *)
C1_RelativePathRejected ==
    [][(AnalyzeCalled /\ ~IsAbsolute(call'.args.projectPath)) =>
          /\ call'.outcome = "rejected"
          /\ indexData' = indexData
          /\ cache' = cache
          /\ disk' = disk]_vars

\* the payload of the unexpired entry the cache holds under key, Null when
\* it holds none: the memory tier first, then the file of the key
HeldUnexpired(key) ==
    IF key \in DOMAIN cache /\ now - cache[key].timestamp.ms <= cache[key].ttl
    THEN cache[key].data
    ELSE LET onDisk == {f \in {CacheFile(key)} : f \in DOMAIN disk} IN
         IF \E f \in onDisk : disk[f] # Corrupt
         THEN LET e == ParseEntry(disk[CHOOSE f \in onDisk : TRUE]) IN
              IF now - e.timestamp.ms <= e.ttl THEN e.data ELSE Null
         ELSE Null

File_m == <<"/", "p", "/", "m", ".", "t", "s">>

File_m_relative == <<"m", ".", "t", "s">>

ScanFiles == {File_m, File_a}

ScanArgs ==
    {[projectPath |-> Root_p, includePatterns |-> <<>>],
     [projectPath |-> Root_p, includePatterns |-> <<>>, forceReindex |-> TRUE]}

InitScan ==
    /\ cache = EmptyMap
    /\ disk = EmptyMap
    /\ now = 0
    /\ written = EmptyMap
    /\ call = [op |-> "init"]
    /\ input = Null
    /\ indexData = NewIndexData
    /\ pathResolver = Null
    /\ fsVersion = 1
    /\ faults \in [ScanFiles -> FaultKinds]
    /\ task = Null

NextScan ==
    \/ \E args \in ScanArgs : Analyze(args)
    \/ RestartServer

SpecScan == InitScan /\ [][NextScan]_vars

\* the files an analysis with these arguments discovers
Discovered(args) ==
    FindFiles(WithFaults(ProjectTree(fsVersion), faults),
              Resolve(args.projectPath), AnalysisOptions(args))

(* C5: when the processing of a discovered file fails (stat, read or       *)
(* extraction), the analysis still completes: every file whose stat        *)
(* succeeds is in the index, every file without a failure has its          *)
(* extracted records in the index, lastIndexed is set, the snapshot of the *)
(* index is in the cache and the totals of the index are returned.         *)
C5_FileFailureContained ==
    [][(AnalyzeCalled /\ ~call'.restored) =>
          \A files \in {Discovered(call'.args)} :
          \A key \in {CacheKey(Resolve(call'.args.projectPath),
                               AnalysisOptions(call'.args))} :
             /\ call'.outcome = "success"
             /\ \A i \in DOMAIN files :
                   /\ files[i].fault # "stat" => MapHas(indexData'.files, files[i].path)
                   /\ files[i].fault = "none" =>
                         /\ MapHas(indexData'.methods, files[i].path)
                         /\ indexData'.methods.at[files[i].path]
                               = ParseMethodsFrom(files[i].lines, files[i].path, 1)
             /\ indexData'.lastIndexed = DateOf(now)
             /\ key \in DOMAIN cache'
             /\ cache'[key].data = SerializeIndexData(indexData')
             /\ call'.saved => CacheFile(key) \in DOMAIN disk'
             /\ call'.result.totalFiles
                   = Cardinality({i \in DOMAIN files : files[i].fault # "stat"})
             /\ call'.result.totalMethods = Len(Flatten(Entries(indexData'.methods)))]_vars

\* a.ts could not be read, m.ts was indexed all the same
C5_Witness ==
    /\ call.op = "analyze_project"
    /\ call.outcome = "success"
    /\ call.walked
    /\ faults[File_a] = "read"
    /\ faults[File_m] = "none"
    /\ MapHas(indexData.files, File_a)
    /\ ~MapHas(indexData.methods, File_a)
    /\ MapHas(indexData.methods, File_m)
    /\ call.result.totalFiles = 2

\* two records read alike: every property has the same value in both
SameRecord(a, b) == \A k \in DOMAIN a \cup DOMAIN b : Prop(a, k) = Prop(b, k)

SameList(x, y) == Len(x) = Len(y) /\ \A i \in DOMAIN x : SameRecord(x[i], y[i])

\* two indexes are equal: the same keys in the same order in each mapping,
\* the same records per key in the same order, the same lastIndexed
SameIndex(a, b) ==
    /\ a.files.keys = b.files.keys
    /\ \A k \in Range(a.files.keys) : SameRecord(a.files.at[k], b.files.at[k])
    /\ \A f \in {"methods", "paths", "dependencies"} :
          /\ a[f].keys = b[f].keys
          /\ \A k \in Range(a[f].keys) : SameList(a[f].at[k], b[f].at[k])
    /\ a.lastIndexed = b.lastIndexed

(* C7: the snapshot an analysis has just serialized into the cache,        *)
(* deserialized again, equals the index it was taken of, whether it comes  *)
(* back from the memory tier or from the JSON file of the persisted tier:  *)
(* the same keys in each of the four mappings, the same records per key in *)
(* the same order and the same lastIndexed.                                *)
C7_SnapshotRoundTrip ==
    (call.op = "analyze_project" /\ call.outcome = "success" /\ call.walked) =>
        \A key \in {CacheKey(Resolve(call.args.projectPath), AnalysisOptions(call.args))} :
        \A fromMemory \in {CacheGet(cache, disk, now, key).val} :
        \A fromFile \in {CacheGet(EmptyMap, disk, now, key).val} :
           /\ fromMemory # Null
           /\ SameIndex(DeserializeIndexData(fromMemory), indexData)
           /\ call.saved =>
                 /\ fromFile # Null
                 /\ SameIndex(DeserializeIndexData(fromFile), indexData)

\* a snapshot with both files, one method without a return type, written
\* to the persisted tier
C7_Witness ==
    /\ call.op = "analyze_project"
    /\ call.outcome = "success"
    /\ call.walked
    /\ call.saved
    /\ indexData.files.keys = <<File_a, File_m>>
    /\ MapHas(indexData.methods, File_m)
    /\ MapHas(indexData.dependencies, File_a)

(***************************************************************************)
(* Queries on the index: searchMethods and findUsages of ProjectIndexer    *)
(***************************************************************************)
\* String.prototype.toLowerCase and toUpperCase, on the ASCII letters
LowerOf(c) ==
    IF \E i \in DOMAIN UpperLetters : UpperLetters[i] = c
    THEN LowerLetters[CHOOSE i \in DOMAIN UpperLetters : UpperLetters[i] = c]
    ELSE c

UpperOf(c) ==
    IF \E i \in DOMAIN LowerLetters : LowerLetters[i] = c
    THEN UpperLetters[CHOOSE i \in DOMAIN LowerLetters : LowerLetters[i] = c]
    ELSE c

ToLowerCase(s) == [i \in DOMAIN s |-> LowerOf(s[i])]

ToUpperCase(s) == [i \in DOMAIN s |-> UpperOf(s[i])]

\* the characters of the class [.*+?^${}()|[\]\\]
RegexSpecials == {".", "*", "+", "?", "^", "$", "{", "}", "(", ")", "|", "[", "]", "\\"}

\* query.replace(/[.*+?^${}()|[\]\\]/g, '\\$&')
RECURSIVE EscapeRegExp(_)
EscapeRegExp(s) ==
    IF s = <<>> THEN <<>>
    ELSE (IF s[1] \in RegexSpecials THEN <<"\\", s[1]>> ELSE <<s[1]>>)
         \o EscapeRegExp(Tail(s))

\* new RegExp(source) for a source whose special characters are all
\* escaped: a backslash and the character after it are that character
RECURSIVE CompileEscaped(_)
CompileEscaped(source) ==
    IF source = <<>> THEN <<>>
    ELSE IF source[1] = "\\"
    THEN <<Lit(source[2])>> \o CompileEscaped(SubSeq(source, 3, Len(source)))
    ELSE <<Lit(source[1])>> \o CompileEscaped(Tail(source))

\* RegExp.prototype.test of an unanchored expression with the 'i' flag:
\* the characters of both sides are compared in their upper-case form
TestIgnoreCase(toks, s) ==
    RegexMatch(<<AnyStar>> \o [i \in DOMAIN toks |-> Lit(UpperOf(toks[i].c))] \o <<AnyStar>>,
               ToUpperCase(s))

\* a name matched as written only
NameMatch_caseSensitive(name, query) == Includes(name, query)

\* searchMethods, the name test
NameMatch(name, query) ==
    \/ Includes(ToLowerCase(name), ToLowerCase(query))
    \/ TestIgnoreCase(CompileEscaped(EscapeRegExp(query)), name)

\* the values of the entries of a map, each with the key it is stored under
RECURSIVE FlattenKeyed(_)
FlattenKeyed(pairs) ==
    IF pairs = <<>> THEN <<>>
    ELSE [i \in DOMAIN pairs[1][2] |-> [key |-> pairs[1][1], value |-> pairs[1][2][i]]]
         \o FlattenKeyed(Tail(pairs))

DigitChars == <<"0", "1", "2", "3", "4", "5", "6", "7", "8", "9">>

\* String(n) of a natural number
RECURSIVE Decimal(_)
Decimal(n) ==
    IF n < 10 THEN <<DigitChars[n + 1]>>
    ELSE Decimal(n \div 10) \o <<DigitChars[(n % 10) + 1]>>

\* ProjectIndexer.findMethodUsages
FindMethodUsages(d, methodName) ==
    LET Uses(e) == Includes(e.value.to, methodName) \/ Includes(e.value.from, methodName)
        hits == SelectSeq(FlattenKeyed(Entries(d.dependencies)), Uses)
    IN [i \in DOMAIN hits |-> hits[i].key \o <<":">> \o Decimal(hits[i].value.line)]

\* ProjectIndexer.searchMethods
SearchMethods(d, query, type, includeUsages) ==
    LET Hit(m) == (type = "all" \/ m.type = type) /\ NameMatch(m.name, query)
        hits == SelectSeq(Flatten(Entries(d.methods)), Hit)
        items == [i \in DOMAIN hits |->
                     IF includeUsages
                     THEN hits[i] @@ [k \in {"usages"} |-> FindMethodUsages(d, hits[i].name)]
                     ELSE hits[i]]
    IN [items |-> items, totalCount |-> Len(items), query |-> query]

\* a string argument that is given and not empty
Truthy(o, k) == k \in DOMAIN o /\ o[k] # <<>>

\* s.replace(/\.(ts|js)$/, '')
StripTsJs(s) ==
    IF EndsWith(s, Ext_ts) \/ EndsWith(s, Ext_js) THEN SubSeq(s, 1, Len(s) - 3) ELSE s

\* s.split('/').pop() || ''
LastSegment(s) == LET segs == Split(s, Slash) IN segs[Len(segs)]

\* findUsages, the test of a dependency against filePath; every dependency
\* of the index has a resolvedTo, r is the resolver of the indexer or Null
ImportsFile(r, dep, filePath) ==
    \E searchAbsolutePath \in {Resolve(filePath)} :
    \E resolvedDepPath \in {IF r = Null THEN Null
                            ELSE ResolveImportPath(r, dep.to, dep.from)} :
    \E searchPath \in {StripTsJs(BackslashToSlash(filePath))} :
    \E depToPath \in {StripTsJs(BackslashToSlash(dep.to))} :
       \/ Truthy(dep, "resolvedTo") /\ Resolve(dep.resolvedTo) = searchAbsolutePath
       \/ resolvedDepPath # Null /\ Resolve(resolvedDepPath) = searchAbsolutePath
       \/ LastSegment(searchPath) # <<>> /\ LastSegment(depToPath) = LastSegment(searchPath)
       \/ EndsWith(depToPath, searchPath)
       \/ EndsWith(searchPath, depToPath)
       \/ Includes(dep.to, filePath)
       \/ Includes(dep.to, searchPath)

\* `if (filePath && searchType !== 'usages')` and the tests under it
IsImportMatch(r, dep, options) ==
    /\ Truthy(options, "filePath")
    /\ options.searchType # "usages"
    /\ ImportsFile(r, dep, options.filePath)

\* `if ((methodName || className) && searchType !== 'imports')` and the
\* test of methodName || className under it
IsUsageMatch(dep, options) ==
    /\ Truthy(options, "methodName") \/ Truthy(options, "className")
    /\ options.searchType # "imports"
    /\ \E searchTerm \in {IF Truthy(options, "methodName") THEN options.methodName
                          ELSE options.className} :
          Includes(dep.to, searchTerm) \/ Includes(dep.from, searchTerm)

\* the records pushed for the matching dependencies
UsageRecords(hits, options) ==
    [i \in DOMAIN hits |->
        [file       |-> hits[i].key,
         line       |-> hits[i].value.line,
         type       |-> IF IsUsageMatch(hits[i].value, options) THEN "usage" ELSE "import",
         context    |-> hits[i].value.type,
         from       |-> hits[i].value.from,
         to         |-> hits[i].value.to,
         resolvedTo |-> hits[i].value.resolvedTo]]

\* ProjectIndexer.findUsages
FindUsages(d, r, options) ==
    LET isMatch(e) == IsImportMatch(r, e.value, options) \/ IsUsageMatch(e.value, options)
    IN UsageRecords(SelectSeq(FlattenKeyed(Entries(d.dependencies)), isMatch), options)

(***************************************************************************)
(* The query tools.  A handler answers with success:true and a result,     *)
(* with success:false and an error text ("failure"), or throws, which the  *)
(* dispatch turns into an McpError ("error").  queried tells whether the   *)
(* handler called the indexer.                                             *)
(***************************************************************************)
ItemLimit == 50

UsageLimit == 100

\* items.slice(0, n)
Slice0(items, n) == SubSeq(items, 1, IF Len(items) < n THEN Len(items) ELSE n)

\* the handler of search_methods; destructuring an absent arguments object
\* throws a TypeError
SearchMethodsHandler(d, args) ==
    IF args = Undefined THEN [outcome |-> "error", queried |-> FALSE]
    ELSE IF ~Truthy(args, "query")
    THEN [outcome |-> "failure", queried |-> FALSE,
          error |-> "Query parameter is required"]
    ELSE LET result == SearchMethods(d, args.query, Default(args, "type", "all"),
                                     Default(args, "includeUsages", FALSE))
         IN [outcome |-> "success", queried |-> TRUE,
             result  |-> [query      |-> result.query,
                          totalCount |-> result.totalCount,
                          items      |-> Slice0(result.items, ItemLimit)]]

\* the options the find_usages handler passes on: the arguments given, and
\* searchType with its default
UsageOptions(args) ==
    [k \in (DOMAIN args \cap {"filePath", "methodName", "className"}) \cup {"searchType"} |->
        IF k = "searchType" THEN Default(args, "searchType", "imports") ELSE args[k]]

\* filePath || methodName || className
FirstTruthy(o) ==
    IF Truthy(o, "filePath") THEN o.filePath
    ELSE IF Truthy(o, "methodName") THEN o.methodName
    ELSE o.className

\* the answer of find_usages for the usages found
UsagesAnswer(result, args) ==
    [outcome |-> "success", queried |-> TRUE,
     result  |-> [searchType |-> Default(args, "searchType", "imports"),
                  query      |-> FirstTruthy(args),
                  totalCount |-> Len(result),
                  usages     |-> Slice0(result, UsageLimit)]]

\* the handler of find_usages
FindUsagesHandler(d, r, args) ==
    IF args = Undefined THEN [outcome |-> "error", queried |-> FALSE]
    ELSE IF ~Truthy(args, "filePath") /\ ~Truthy(args, "methodName")
            /\ ~Truthy(args, "className")
    THEN [outcome |-> "failure", queried |-> FALSE,
          error |-> "Either filePath, methodName, or className is required"]
    ELSE UsagesAnswer(FindUsages(d, r, UsageOptions(args)), args)

(***************************************************************************)
(* findDependencies.  The recursion of findDependenciesRecursive is run    *)
(* one step at a time on a stack of calls: a call is at its entry, or at   *)
(* the outgoing or the incoming test of the k-th dependency of the index.  *)
(***************************************************************************)
DepthMin == 1

DepthMax == 10

DefaultDepth == 2

\* no call is deeper than the depth asked for
StackLimit == DepthMax + 1

\* a call that goes on whatever the depth and the names seen
ReturnsAtOnce_never(currentDepth, depth, visited, entityName) == FALSE

\* the guard with the depth test off by one
ReturnsAtOnce_oneDeeper(currentDepth, depth, visited, entityName) ==
    currentDepth > depth \/ entityName \in visited

\* `if (currentDepth >= depth || visited.has(entityName)) return`
ReturnsAtOnce(currentDepth, depth, visited, entityName) ==
    currentDepth >= depth \/ entityName \in visited

\* the dependencies in the order the two loops meet them
AllDependencies(d) == Flatten(Entries(d.dependencies))

\* `if (!graph.has(k)) graph.set(k, [])` and `graph.get(k).push(v)`
GraphPush(graph, k, v) ==
    MapSet(graph, k, IF MapHas(graph, k) THEN Append(graph.at[k], v) ELSE <<v>>)

NewCall(entityName, currentDepth) ==
    [entityName |-> entityName, currentDepth |-> currentDepth, at |-> "entry", k |-> 0]

\* ProjectIndexer.findDependencies up to its call of the recursion
StartTraversal(args) ==
    [args       |-> args,
     direction  |-> Default(args, "direction", "both"),
     depth      |-> Default(args, "depth", DefaultDepth),
     incoming   |-> <<>>,
     outgoing   |-> <<>>,
     visited    |-> {},
     graph      |-> NewMap,
     stack      |-> <<NewCall(args.entityName, 0)>>]

Traversing == task # Null

Top == task.stack[Len(task.stack)]

Returned == SubSeq(task.stack, 1, Len(task.stack) - 1)

WithTop(call_) == [task.stack EXCEPT ![Len(task.stack)] = call_]

\* the find_dependencies tool: the handler, and the start of the traversal
FindDependenciesOp(args) ==
    /\ ~Traversing
    /\ IF args = Undefined
       THEN /\ call' = [op |-> "find_dependencies", args |-> args, outcome |-> "error",
                        queried |-> FALSE]
            /\ task' = task
       ELSE IF ~Truthy(args, "entityName")
       THEN /\ call' = [op |-> "find_dependencies", args |-> args, outcome |-> "failure",
                        queried |-> FALSE, error |-> "entityName parameter is required"]
            /\ task' = task
       ELSE /\ call' = [op |-> "find_dependencies", args |-> args, outcome |-> "running",
                        queried |-> TRUE]
            /\ task' = StartTraversal(args)
    /\ UNCHANGED <<cacheVars, input, indexData, pathResolver, fsVersion, faults>>

\* the entry of a call: it returns at once, or marks its name as visited
\* and starts its loops
EnterCall ==
    /\ Traversing
    /\ task.stack # <<>>
    /\ Top.at = "entry"
    /\ task' = IF ReturnsAtOnce(Top.currentDepth, task.depth, task.visited, Top.entityName)
               THEN [task EXCEPT !.stack = Returned]
               ELSE [task EXCEPT !.visited = @ \cup {Top.entityName},
                                 !.stack = WithTop([Top EXCEPT !.at = "outgoing", !.k = 1])]
    /\ UNCHANGED <<cacheVars, call, input, indexData, pathResolver, fsVersion, faults>>

\* the outgoing test of the k-th dependency, with the recursive call on dep.to
VisitOutgoing ==
    /\ Traversing
    /\ task.stack # <<>>
    /\ Top.at = "outgoing"
    /\ Top.k <= Len(AllDependencies(indexData))
    /\ LET dep == AllDependencies(indexData)[Top.k]
           after == WithTop([Top EXCEPT !.at = "incoming"])
       IN IF task.direction \in {"outgoing", "both"} /\ Includes(dep.from, Top.entityName)
          THEN /\ Len(task.stack) < StackLimit
               /\ task' = [task EXCEPT
                             !.outgoing = Append(@, dep),
                             !.graph = GraphPush(@, dep.from, dep.to),
                             !.stack = Append(after, NewCall(dep.to, Top.currentDepth + 1))]
          ELSE task' = [task EXCEPT !.stack = after]
    /\ UNCHANGED <<cacheVars, call, input, indexData, pathResolver, fsVersion, faults>>

\* the incoming test of the k-th dependency, with the recursive call on
\* dep.from; the loop goes on with the next dependency
VisitIncoming ==
    /\ Traversing
    /\ task.stack # <<>>
    /\ Top.at = "incoming"
    /\ LET dep == AllDependencies(indexData)[Top.k]
           after == WithTop([Top EXCEPT !.at = "outgoing", !.k = @ + 1])
       IN IF task.direction \in {"incoming", "both"} /\ Includes(dep.to, Top.entityName)
          THEN /\ Len(task.stack) < StackLimit
               /\ task' = [task EXCEPT
                             !.incoming = Append(@, dep),
                             !.graph = GraphPush(@, dep.to, dep.from),
                             !.stack = Append(after, NewCall(dep.from, Top.currentDepth + 1))]
          ELSE task' = [task EXCEPT !.stack = after]
    /\ UNCHANGED <<cacheVars, call, input, indexData, pathResolver, fsVersion, faults>>

\* the loops of a call are over
ReturnCall ==
    /\ Traversing
    /\ task.stack # <<>>
    /\ Top.at = "outgoing"
    /\ Top.k > Len(AllDependencies(indexData))
    /\ task' = [task EXCEPT !.stack = Returned]
    /\ UNCHANGED <<cacheVars, call, input, indexData, pathResolver, fsVersion, faults>>

\* the outermost call has returned: findDependencies returns, and the
\* handler answers
FinishFindDependencies ==
    /\ Traversing
    /\ task.stack = <<>>
    /\ call' = [op      |-> "find_dependencies",
                args    |-> task.args,
                outcome |-> "success",
                queried |-> TRUE,
                result  |-> [entity   |-> task.args.entityName,
                             incoming |-> task.incoming,
                             outgoing |-> task.outgoing,
                             graph    |-> Entries(task.graph),
                             summary  |-> [incomingCount |-> Len(task.incoming),
                                           outgoingCount |-> Len(task.outgoing),
                                           totalNodes    |-> Len(task.graph.keys)]]]
    /\ task' = Null
    /\ UNCHANGED <<cacheVars, input, indexData, pathResolver, fsVersion, faults>>

TraversalStep ==
    EnterCall \/ VisitOutgoing \/ VisitIncoming \/ ReturnCall \/ FinishFindDependencies

\* the search_methods tool
SearchMethodsOp(args) ==
    /\ ~Traversing
    /\ call' = [op |-> "search_methods", args |-> args]
                  @@ SearchMethodsHandler(indexData, args)
    /\ UNCHANGED <<cacheVars, input, engineVars>>

\* the find_usages tool
FindUsagesOp(args) ==
    /\ ~Traversing
    /\ call' = [op |-> "find_usages", args |-> args]
                  @@ FindUsagesHandler(indexData, pathResolver, args)
    /\ UNCHANGED <<cacheVars, input, engineVars>>

(***************************************************************************)
(* The queries on the index of a project of two files, a.ts and b.ts: each *)
(* file imports the other one (by a relative or by an absolute specifier), *)
(* declares functions and classes, or is empty.                            *)
(***************************************************************************)
Name_loadConfig == <<"l", "o", "a", "d", "C", "o", "n", "f", "i", "g">>

Name_CONFIG_INIT == <<"C", "O", "N", "F", "I", "G", "_", "I", "N", "I", "T">>

Spec_a == <<".", "/", "a">>

FunctionLine(name) ==
    [kind |-> "function", name |-> name, returnType |-> Undefined, isAsync |-> FALSE]

ImportLine(spec) == [kind |-> "import", spec |-> spec]

QueryLines_a ==
    {<<>>, <<ImportLine(Spec_b)>>, <<ImportLine(File_b)>>,
     <<FunctionLine(Name_loadConfig), [kind |-> "class", name |-> Name_Config]>>}

QueryLines_b ==
    {<<>>, <<ImportLine(Spec_a)>>, <<ImportLine(File_a)>>,
     <<FunctionLine(Name_CONFIG_INIT), FunctionLine(Name_run)>>}

QueryTree(la, lb) ==
    <<[path |-> File_a, lines |-> la, size |-> Len(la), mtime |-> 0, fault |-> "none"],
      [path |-> File_b, lines |-> lb, size |-> Len(lb), mtime |-> 0, fault |-> "none"]>>

\* the index of an analysis of the two files
QueryIndex(la, lb) ==
    Reindex(NewIndexData, 0, QueryTree(la, lb), NewPathResolver(EmptyMap, Root_p), Root_p,
            <<1, 2>>, <<1, 2>>)

Queries ==
    {<<"c", "o", "n", "f", "i", "g">>, Name_Config, <<"c", ".", "n">>, Name_run,
     <<"I", "N", "I", "T">>}

Kinds == {"all", "function", "class"}

SearchArgs ==
    {Undefined, [type |-> "all"], [query |-> <<>>]}
    \cup {[query |-> q, type |-> t] : q \in Queries, t \in Kinds}
    \cup {[query |-> q, includeUsages |-> TRUE] : q \in Queries}

UsageArgs ==
    {Undefined, [searchType |-> "both"], [filePath |-> <<>>],
     [filePath |-> File_b], [filePath |-> <<"b">>, searchType |-> "both"],
     [methodName |-> <<"b">>, searchType |-> "usages"],
     [className |-> Name_Config, searchType |-> "both"]}

Entities == {File_a, <<"b">>}

Directions == {"incoming", "outgoing", "both"}

\* find_dependencies calls that name no entity
UnnamedDependencyArgs == {Undefined, [direction |-> "both"], [entityName |-> <<>>]}

DependencyArgs ==
    UnnamedDependencyArgs
    \cup {[entityName |-> e] : e \in Entities}
    \cup {[entityName |-> e, direction |-> dir, depth |-> n] :
             e \in Entities, dir \in Directions, n \in DepthMin..DepthMax}

InitQuery ==
    /\ cache = EmptyMap
    /\ disk = EmptyMap
    /\ now = 0
    /\ written = EmptyMap
    /\ call = [op |-> "init"]
    /\ input = Null
    /\ \E la \in QueryLines_a, lb \in QueryLines_b : indexData = QueryIndex(la, lb)
    /\ pathResolver = NewPathResolver(EmptyMap, Root_p)
    /\ fsVersion = 1
    /\ faults = EmptyMap
    /\ task = Null

\* the calls that are answered without a traversal
NextQuery ==
    \/ \E args \in SearchArgs : SearchMethodsOp(args)
    \/ \E args \in UsageArgs : FindUsagesOp(args)
    \/ \E args \in UnnamedDependencyArgs : FindDependenciesOp(args)

SpecQuery == InitQuery /\ [][NextQuery]_vars

\* the find_dependencies calls and the steps of their traversals
NextDeps ==
    \/ \E args \in DependencyArgs : FindDependenciesOp(args)
    \/ EnterCall
    \/ VisitOutgoing
    \/ VisitIncoming
    \/ ReturnCall
    \/ FinishFindDependencies

\* the traversal is synchronous code: once started it runs on
SpecDeps == InitQuery /\ [][NextDeps]_vars /\ WF_vars(TraversalStep)

(* C4: every findDependencies call, whatever its entityName, direction and *)
(* depth in 1..10, returns, on every set of dependencies of the index,     *)
(* those with import cycles included.                                      *)
C4_FindDependenciesTerminates == Traversing ~> ~Traversing

\* a traversal of depth 10 from a.ts over the cycle a.ts -> b.ts -> a.ts
\* has returned with both edges
C4_Witness ==
    /\ call.op = "find_dependencies"
    /\ call.outcome = "success"
    /\ call.args.entityName = File_a
    /\ "depth" \in DOMAIN call.args
    /\ call.args.depth = DepthMax
    /\ call.args.direction = "outgoing"
    /\ Len(call.result.outgoing) = 2
    /\ call.result.outgoing[1].to = File_b
    /\ call.result.outgoing[2].to = File_a

\* the required parameter of a query tool is not among the arguments
LacksRequired(op, args) ==
    IF op = "search_methods" THEN ~Truthy(args, "query")
    ELSE IF op = "find_dependencies" THEN ~Truthy(args, "entityName")
    ELSE ~Truthy(args, "filePath") /\ ~Truthy(args, "methodName")
         /\ ~Truthy(args, "className")

(* C6: a search_methods call without query, a find_dependencies call       *)
(* without entityName and a find_usages call with none of filePath,        *)
(* methodName and className are answered with success:false: the handler   *)
(* does not throw, does not call the indexer and leaves the index as it is.*)
C6_MissingParameterFails ==
    [][(/\ call'.op \in {"search_methods", "find_dependencies", "find_usages"}
        /\ LacksRequired(call'.op, call'.args)) =>
          /\ call'.outcome = "failure"
          /\ ~call'.queried
          /\ indexData' = indexData]_vars

\* two characters are the same letter, in whatever case
SameLetter(a, b) ==
    a = b \/ \E n \in DOMAIN LowerLetters : {a, b} = {LowerLetters[n], UpperLetters[n]}

ContainsIgnoringCase(name, query) ==
    \E i \in 0..(Len(name) - Len(query)) :
       \A j \in 1..Len(query) : SameLetter(name[i + j], query[j])

Pat_rootTs == <<"*", ".", "t", "s">>

Pat_src == <<"s", "r", "c", "/", "*", "*">>

Pat_oneLetter == <<"s", "r", "c", "/", "?", ".", "t", "s">>

Pat_plus == <<"a", "+", "b", ".", "t", "s">>

Pat_backslash == <<"s", "r", "c", "\\", "*", ".", "t", "s">>

DiscoverPatterns == {Pat_ts, Pat_dts, Pat_node_modules, Pat_rootTs, Pat_src}

PatternLists ==
    {<<>>} \cup {<<p>> : p \in DiscoverPatterns}
           \cup {<<p, q>> : p \in DiscoverPatterns, q \in DiscoverPatterns}

MatchPatterns ==
    {Pat_ts, Pat_node_modules, Pat_rootTs, Pat_oneLetter, Pat_plus, Pat_backslash,
     File_m_relative, Placeholder}

Path_deep_ts == <<"s", "r", "c", "/", "a", "/", "b", "/", "c", ".", "t", "s">>

Path_deep_js == <<"s", "r", "c", "/", "a", "/", "b", "/", "c", ".", "j", "s">>

Path_modules == <<"n", "o", "d", "e", "_", "m", "o", "d", "u", "l", "e", "s", "/", "x", "/",
                  "y", ".", "t", "s">>

Path_helper == <<"s", "r", "c", "/", "n", "o", "d", "e", "_", "m", "o", "d", "u", "l", "e",
                 "s", "_", "h", "e", "l", "p", "e", "r", ".", "t", "s">>

MatchPaths ==
    {Path_deep_ts, Path_deep_js, Path_modules, Path_helper,
     <<"m", ".", "t", "s">>, <<"m", "x", "t", "s">>, <<"s", "r", "c", "/", "a", ".", "t", "s">>,
     <<"s", "r", "c", "\\", "a", ".", "t", "s">>, <<"s", "r", "c", "/", "/", ".", "t", "s">>,
     <<"a", "+", "b", ".", "t", "s">>, <<"a", "a", "b", ".", "t", "s">>, Placeholder}

DiscoverInputs ==
    [kind : {"options"}, includePatterns : PatternLists, excludePatterns : PatternLists]
    \cup [kind : {"match"}, filePath : MatchPaths, pattern : MatchPatterns]

InitDiscover ==
    /\ input \in DiscoverInputs
    /\ call = [op |-> "init"]
    /\ cache = EmptyMap
    /\ disk = EmptyMap
    /\ now = 0
    /\ written = EmptyMap
    /\ indexData = Null
    /\ pathResolver = Null
    /\ fsVersion = 1
    /\ faults = EmptyMap
    /\ task = Null

\* ProjectIndexer.findFiles on /p with the lists of the input
FindFilesOp ==
    /\ call.op = "init"
    /\ input.kind = "options"
    /\ \E allFiles \in {FindFiles(WithFaults(ProjectTree(fsVersion), faults), Root_p,
                                   [includePatterns |-> input.includePatterns,
                                    excludePatterns |-> input.excludePatterns])} :
          call' = [op     |-> "findFiles",
                   result |-> [i \in DOMAIN allFiles |-> allFiles[i].path]]
    /\ UNCHANGED <<input, cacheVars, engineVars>>

\* ProjectIndexer.matchesPattern on the path and the pattern of the input
MatchesPatternOp ==
    /\ call.op = "init"
    /\ input.kind = "match"
    /\ call' = [op     |-> "matchesPattern",
                result |-> MatchesPattern(input.filePath, input.pattern)]
    /\ UNCHANGED <<input, cacheVars, engineVars>>

NextDiscover == FindFilesOp \/ MatchesPatternOp

SpecDiscover == InitDiscover /\ [][NextDiscover]_vars

\* the files with a recognised source extension the walk reaches under /p
ReachedSources ==
    {f \in Range(ProjectTree(1)) :
        /\ StartsWith(f.path, Root_p \o <<"/">>)
        /\ Extname(f.path) \in {Ext_ts, Ext_js}}

\* the path matches some pattern of the list
MatchesSome(rel, patterns) ==
    \E i \in DOMAIN patterns : MatchesPattern(rel, patterns[i])

(* C9: a file with a recognised source extension that the walk reaches     *)
(* under the project root is in the discovery result if and only if its    *)
(* root-relative path matches no exclude pattern and matches at least one  *)
(* include pattern or the include list is empty; a file matching both an   *)
(* exclude and an include pattern is excluded.                             *)
C9_IncludedIffNotExcluded ==
    call.op = "findFiles" =>
        \A f \in ReachedSources :
            \A rel \in {SubSeq(f.path, Len(Root_p) + 2, Len(f.path))} :
                (\E i \in DOMAIN call.result : call.result[i] = f.path)
                <=> /\ ~MatchesSome(rel, input.excludePatterns)
                    /\ \/ input.includePatterns = <<>>
                       \/ MatchesSome(rel, input.includePatterns)

\* with include '**/*.ts' and exclude '**/*.d.ts', src/t.d.ts matches both
\* and is left out while src/a.ts is found
C9_Witness ==
    /\ call.op = "findFiles"
    /\ input.includePatterns = <<Pat_ts>>
    /\ input.excludePatterns = <<Pat_dts>>
    /\ call.result = <<File_a>>

\* the glob matches s from position j on, read as the four rules say
RECURSIVE GlobAt(_, _, _, _)
GlobAt(p, i, s, j) ==
    IF i > Len(p) THEN j > Len(s)
    ELSE IF p[i] = "*" /\ i < Len(p) /\ p[i + 1] = "*"
    THEN \E k \in j..(Len(s) + 1) : GlobAt(p, i + 2, s, k)
    ELSE IF p[i] = "*"
    THEN \E k \in j..(Len(s) + 1) :
            (\A n \in j..(k - 1) : s[n] # "/") /\ GlobAt(p, i + 1, s, k)
    ELSE IF p[i] = "?"
    THEN j <= Len(s) /\ GlobAt(p, i + 1, s, j + 1)
    ELSE j <= Len(s) /\ s[j] = p[i] /\ GlobAt(p, i + 1, s, j + 1)

(* C11: pattern matching is anchored on the whole forward-slash-normalised *)
(* path, '**' matches any character sequence including '/', '*' any        *)
(* sequence without '/', '?' exactly one character and every other         *)
(* character matches literally; '**/*.ts' matches src/a/b/c.ts and not     *)
(* src/a/b/c.js, 'node_modules/**' matches node_modules/x/y.ts and not     *)
(* src/node_modules_helper.ts.                                             *)
C11_GlobSemantics ==
    call.op = "matchesPattern" =>
        call.result = GlobAt(BackslashToSlash(input.pattern), 1,
                             BackslashToSlash(input.filePath), 1)

\* two indexes hold the same records: the same keys in each of the four
\* mappings and the same records per key
SameContent(a, b) ==
    /\ Range(a.files.keys) = Range(b.files.keys)
    /\ \A k \in Range(a.files.keys) : SameRecord(a.files.at[k], b.files.at[k])
    /\ \A f \in {"methods", "paths", "dependencies"} :
          /\ Range(a[f].keys) = Range(b[f].keys)
          /\ \A k \in Range(a[f].keys) : SameList(a[f].at[k], b[f].at[k])

\* the last call was a successful analysis with forceReindex = true
ForcedRunCompleted ==
    /\ call.op = "analyze_project"
    /\ call.outcome = "success"
    /\ AnalysisOptions(call.args).forceReindex

\* the step is a successful analysis with forceReindex = false of the
\* project and the patterns of the last call
UnforcedRunFollows ==
    /\ call'.op = "analyze_project"
    /\ call'.outcome = "success"
    /\ \A before \in {AnalysisOptions(call.args)} :
       \A after \in {AnalysisOptions(call'.args)} :
          /\ ~after.forceReindex
          /\ Resolve(after.projectPath) = Resolve(before.projectPath)
          /\ after.includePatterns = before.includePatterns
          /\ after.excludePatterns = before.excludePatterns

(* C12: after analyzeProject with forceReindex = true completes, a         *)
(* following analyzeProject of the same project and patterns with          *)
(* forceReindex = false yields the index the forced run produced, not a    *)
(* snapshot cached before the forced run.                                  *)
C12_ForcedRunSupersedes ==
    [][(ForcedRunCompleted /\ UnforcedRunFollows) => SameContent(indexData', indexData)]_vars

(***************************************************************************)
(* Two analyses in flight on one engine.  analyzeProject is asynchronous:  *)
(* between two of its awaits the event loop runs the steps of the other    *)
(* invocation, on the same indexData, pathResolver and parser.  In task,   *)
(* runs[i] is the position of invocation i with its local variables and    *)
(* parserResolver is the resolver the parser holds.  No configuration file *)
(* exists, so PathResolver.initialize leaves a resolver as constructed.    *)
(***************************************************************************)
Runs == {1, 2}

\* the analyses a behaviour starts
MaxAnalyses == 2

RaceArgs ==
    {[projectPath |-> Root_p, includePatterns |-> <<>>],
     [projectPath |-> Root_q, includePatterns |-> <<>>]}

Idle == [pc |-> "idle"]

InitRace ==
    /\ cache = EmptyMap
    /\ disk = EmptyMap
    /\ now = 0
    /\ written = EmptyMap
    /\ call = [op |-> "init"]
    /\ input = Null
    /\ indexData = NewIndexData
    /\ pathResolver = Null
    /\ fsVersion = 1
    /\ faults = EmptyMap
    /\ task = [parserResolver |-> Null, started |-> 0, runs |-> [i \in Runs |-> Idle]]

\* the return of analyzeProject through the handler of the server
Answer(i, run, d, restored) ==
    [op       |-> "analyze_project",
     run      |-> i,
     args     |-> run.args,
     outcome  |-> "success",
     result   |-> GetStats(d),
     restored |-> restored]

\* analyzeProject up to `await this.pathResolver.initialize()`
StartAnalysis(i, args) ==
    /\ task.runs[i].pc = "idle"
    /\ task.started < MaxAnalyses
    /\ \E options \in {AnalysisOptions(args)} :
       \E projectPath \in {Resolve(options.projectPath)} :
          /\ pathResolver' = NewPathResolver(ProjectConfigs(fsVersion), projectPath)
          /\ task' = [task EXCEPT !.started = @ + 1, !.runs[i] =
                         [pc          |-> "resolver",
                          args        |-> args,
                          options     |-> options,
                          projectPath |-> projectPath,
                          cacheKey    |-> CacheKey(projectPath, options)]]
    /\ UNCHANGED <<cacheVars, call, input, indexData, fsVersion, faults>>

\* the continuation of an invocation once cache.get has returned cachedData:
\* the cached branch, or the call of findFiles
AfterCacheGet(i, run, cachedData, mem, dsk) ==
    /\ cache' = mem
    /\ disk' = dsk
    /\ IF UseCached(cachedData, run.options.forceReindex)
       THEN \E restored \in {Restore(cachedData)} :
               /\ indexData' = restored
               /\ call' = Answer(i, run, restored, TRUE)
               /\ task' = [task EXCEPT !.parserResolver = pathResolver, !.runs[i] = Idle]
       ELSE /\ task' = [task EXCEPT !.parserResolver = pathResolver,
                                    !.runs[i] = [run EXCEPT !.pc = "find"]]
            /\ UNCHANGED <<indexData, call>>

\* from parser.setPathResolver to the first await of cache.get: an
\* unexpired entry of the memory tier is returned at once, otherwise the
\* file is being read
ResolverReady(i) ==
    /\ task.runs[i].pc = "resolver"
    /\ \E run \in {task.runs[i]} :
          IF run.cacheKey \in DOMAIN cache /\ ~IsExpired(cache[run.cacheKey], now)
          THEN AfterCacheGet(i, run, cache[run.cacheKey].data, cache, disk)
          ELSE /\ task' = [task EXCEPT !.parserResolver = pathResolver,
                                       !.runs[i] = [run EXCEPT !.pc = "read"]]
               /\ UNCHANGED <<cache, disk, indexData, call>>
    /\ UNCHANGED <<now, written, input, pathResolver, fsVersion, faults>>

\* fs.readFile of the cache file has settled: the rest of cache.get
CacheRead(i) ==
    /\ task.runs[i].pc = "read"
    /\ \E run \in {task.runs[i]} :
       \E got \in {CacheReadFile(cache, disk, now, run.cacheKey)} :
          AfterCacheGet(i, run, got.val, got.mem, got.dsk)
    /\ UNCHANGED <<now, written, input, pathResolver, fsVersion, faults>>

\* the batch of an invocation has settled: lastIndexed, serializeIndexData
\* and cache.set up to its `await fs.writeFile`
BatchSettled(i, run, d) ==
    \E indexed \in {[d EXCEPT !.lastIndexed = DateOf(now)]} :
    \E snapshot \in {SerializeIndexData(indexed)} :
       /\ indexData' = indexed
       /\ cache' = CacheSet(cache, disk, now, run.cacheKey, snapshot, SnapshotTtl, FALSE).mem
       /\ task' = [task EXCEPT !.runs[i] = [run EXCEPT !.pc = "write"] @@
                                           [snapshot |-> snapshot]]

\* a processFile of the batch has stored into d: the batch goes on, or
\* Promise.all settles with the last of its files
FileProcessed(i, run, d) ==
    IF run.pending = {}
    THEN BatchSettled(i, run, d)
    ELSE /\ indexData' = d
         /\ cache' = cache
         /\ task' = [task EXCEPT !.runs[i] = run]

\* findFiles has returned: clearIndexData, and the batch starts a
\* processFile for every file, each up to its `await fs.stat`
FilesFound(i) ==
    /\ task.runs[i].pc = "find"
    /\ \E files \in {FindFiles(WithFaults(ProjectTree(fsVersion), faults),
                               task.runs[i].projectPath, task.runs[i].options)} :
          FileProcessed(i,
                        [task.runs[i] EXCEPT !.pc = "process"] @@
                        [files |-> files, pending |-> DOMAIN files, statted |-> {}],
                        ClearIndexData(indexData))
    /\ UNCHANGED <<disk, now, written, call, input, pathResolver, fsVersion, faults>>

\* fs.stat of a file of the batch has settled: files.set and the call of
\* parser.parseFile, or the catch block
StatDone(i, k) ==
    /\ task.runs[i].pc = "process"
    /\ k \in task.runs[i].pending \ task.runs[i].statted
    /\ \E run \in {task.runs[i]} :
          FileProcessed(i,
                        [run EXCEPT !.statted = @ \cup {k},
                                    !.pending = IF run.files[k].fault = "stat"
                                                THEN @ \ {k} ELSE @],
                        ProcessFileStat(indexData, run.files[k], run.projectPath))
    /\ UNCHANGED <<disk, now, written, call, input, pathResolver, fsVersion, faults>>

\* parser.parseFile of a file of the batch has settled: the records are
\* stored, extracted with the resolver the parser holds by then
ParseDone(i, k) ==
    /\ task.runs[i].pc = "process"
    /\ k \in task.runs[i].pending \cap task.runs[i].statted
    /\ \E run \in {task.runs[i]} :
          FileProcessed(i,
                        [run EXCEPT !.pending = @ \ {k}],
                        ProcessFileParse(indexData, task.parserResolver, run.files[k]))
    /\ UNCHANGED <<disk, now, written, call, input, pathResolver, fsVersion, faults>>

\* fs.writeFile of cache.set has settled: getStats and the return
WriteDone(i) ==
    /\ task.runs[i].pc = "write"
    /\ \E run \in {task.runs[i]} :
       \E writeOk \in BOOLEAN :
          /\ disk' = CacheSet(cache, disk, now, run.cacheKey, run.snapshot, SnapshotTtl,
                              writeOk).dsk
          /\ call' = Answer(i, run, indexData, FALSE)
                        @@ [files |-> run.files, snapshot |-> run.snapshot]
          /\ task' = [task EXCEPT !.runs[i] = Idle]
    /\ UNCHANGED <<cache, now, written, input, indexData, pathResolver, fsVersion, faults>>

NextRace ==
    \/ \E i \in Runs, args \in RaceArgs : StartAnalysis(i, args)
    \/ \E i \in Runs : ResolverReady(i)
    \/ \E i \in Runs : CacheRead(i)
    \/ \E i \in Runs : FilesFound(i)
    \/ \E i \in Runs, k \in 1..2 : StatDone(i, k)
    \/ \E i \in Runs, k \in 1..2 : ParseDone(i, k)
    \/ \E i \in Runs : WriteDone(i)

SpecRace == InitRace /\ [][NextRace]_vars

\* the paths a snapshot has file records of
SnapshotPaths(snapshot) == {snapshot.files[n][1] : n \in DOMAIN snapshot.files}

\* the paths the scan of an invocation discovered
ScanPaths(files) == {files[k].path : k \in DOMAIN files}

(* C13: when two analyzeProject invocations interleave on one engine, each *)
(* computes its snapshot independently: the snapshot an invocation writes  *)
(* under its key and the totals it returns contain exactly the records of  *)
(* the files of its own scan, and the entry stored under a shared key is   *)
(* the complete snapshot of the invocation that wrote last.                *)
C13_IndependentSnapshots ==
    (call.op = "analyze_project" /\ ~call.restored) =>
        /\ SnapshotPaths(call.snapshot) = ScanPaths(call.files)
        /\ call.result.totalFiles = Len(call.files)

(***************************************************************************)
(* Claims about the two tiers of the cache, on SpecCache                   *)
(***************************************************************************)
\* the step is get(key), set(key, ...), delete(key)
GetStep(key) == call'.op = "get" /\ call'.key = key

SetStep(key) == call'.op = "set" /\ call'.key = key

DeleteStep(key) == call'.op = "delete" /\ call'.key = key

\* now is past the time to live of the entry
Expired(e) == now - e.timestamp.ms > e.ttl

\* the memory tier has an unexpired entry of key
MemoryHit(key) == key \in DOMAIN cache /\ ~Expired(cache[key])

\* the file of key exists and parses
FileParses(key) == CacheFile(key) \in DOMAIN disk /\ disk[CacheFile(key)] # Corrupt

(* C14: get(k) returns only a value that a set stored under the identical  *)
(* key k, and delete(k) never removes the entry of another key k': a key   *)
(* that no set stored since its last delete yields null, and the entry of  *)
(* k' that a tier held before delete(k) is held after it.                  *)
C14_KeysIsolated ==
    [][\A k \in CacheKeys :
          /\ (GetStep(k) /\ k \notin DOMAIN written) => call'.val = Null
          /\ DeleteStep(k) =>
                \A other \in DOMAIN written \ {k} :
                   Held(other, written[other]) => Held(other, written[other])']_vars

(* C15: get(key) returns the unexpired entry of the memory tier whatever   *)
(* the persisted tier holds; on a memory miss it returns the persisted     *)
(* payload and puts the entry into memory if and only if the file exists,  *)
(* parses and is unexpired; a missing or corrupt file makes get return     *)
(* null and adds nothing to memory.                                        *)
C15_MemoryFirstThenFile ==
    [][\A k \in CacheKeys :
          GetStep(k) =>
             IF MemoryHit(k)
             THEN call'.val = cache[k].data /\ cache' = cache /\ disk' = disk
             ELSE IF FileParses(k)
             THEN \A entry \in {ParseEntry(disk[CacheFile(k)])} :
                     IF Expired(entry)
                     THEN call'.val = Null /\ k \notin DOMAIN cache'
                     ELSE /\ call'.val = entry.data
                          /\ k \in DOMAIN cache'
                          /\ cache'[k] = entry
             ELSE call'.val = Null /\ cache' = cache]_vars

\* a get returned the payload of the file, and memory holds the entry as
\* parsed from the file, which is not the entry as set
C15_Witness ==
    /\ call.op = "get"
    /\ call.val # Null
    /\ call.key \in DOMAIN cache
    /\ call.key \in DOMAIN written
    /\ CacheFile(call.key) \in DOMAIN disk
    /\ disk[CacheFile(call.key)] # Corrupt
    /\ cache[call.key] = ParseEntry(disk[CacheFile(call.key)])
    /\ cache[call.key] # written[call.key]

(* C16: when get(key) finds the entry of key expired, the entry is removed *)
(* (the file is deleted and the memory entry dropped): after a get that    *)
(* returned null because of expiry no tier holds an entry for that key.    *)
C16_ExpiredEntryRemoved ==
    [][\A k \in CacheKeys :
          (/\ GetStep(k)
           /\ call'.val = Null
           /\ \/ k \in DOMAIN cache /\ Expired(cache[k])
              \/ FileParses(k) /\ Expired(ParseEntry(disk[CacheFile(k)])))
          => /\ k \notin DOMAIN cache'
             /\ CacheFile(k) \notin DOMAIN disk']_vars

(* C17: set(key, value, ttl) writes the entry to both tiers; when the      *)
(* write of the file fails, set completes all the same and the memory      *)
(* entry stands, so a get(key) that follows in the same process returns    *)
(* value until the time to live has passed.                                *)
C17_MemoryEntryStands ==
    [][\A k \in CacheKeys :
          /\ SetStep(k) =>
                /\ k \in DOMAIN cache'
                /\ cache'[k] = written'[k]
                /\ \/ /\ CacheFile(k) \in DOMAIN disk'
                      /\ disk'[CacheFile(k)] = StringifyEntry(written'[k])
                   \/ disk' = disk
          /\ (k \in DOMAIN written /\ k \in DOMAIN cache /\ cache[k] = written[k]) =>
                /\ (GetStep(k) /\ ~Expired(written[k])) => call'.val = written[k].data
                /\ (/\ call'.op \notin {"restart", "clear"}
                    /\ ~SetStep(k)
                    /\ ~DeleteStep(k)
                    /\ ~(GetStep(k) /\ Expired(written[k])))
                   => k \in DOMAIN cache' /\ cache'[k] = written[k]]_vars

\* a get returned the value of a set whose file was never written
C17_Witness ==
    /\ call.op = "get"
    /\ call.val # Null
    /\ call.key \in DOMAIN written
    /\ call.val = written[call.key].data
    /\ disk = EmptyMap

(***************************************************************************)
(* Analyses of one project after another on one engine, each awaited       *)
(* before the next is sent: /p with every source file, /p with the files   *)
(* below src alone, /q.                                                    *)
(***************************************************************************)
SwitchArgs ==
    {[projectPath |-> Root_p, includePatterns |-> <<>>],
     [projectPath |-> Root_p, includePatterns |-> <<Pat_src>>, forceReindex |-> TRUE],
     [projectPath |-> Root_q, includePatterns |-> <<>>]}

NextSwitch ==
    \/ \E args \in SwitchArgs : Analyze(args)
    \/ EditFiles

SpecSwitch == Init /\ [][NextSwitch]_vars

\* the keys of the four mappings of an index
IndexedPaths(d) ==
    Range(d.files.keys) \cup Range(d.methods.keys) \cup Range(d.paths.keys)
        \cup Range(d.dependencies.keys)

(* C18: after a non-cached analyzeProject completes with no other analysis *)
(* interleaved, the index contains records only for files discovered in    *)
(* that run: no file record, symbol, route or dependency edge of an        *)
(* earlier analysis, of the same or another project, remains.              *)
C18_OnlyThisRunsFiles ==
    [][(AnalyzeCalled /\ ~call'.restored) =>
          \A found \in {ScanPaths(Discovered(call'.args))} :
             /\ IndexedPaths(indexData') \subseteq found
             /\ \A k \in Range(indexData'.methods.keys) :
                   \A n \in DOMAIN indexData'.methods.at[k] :
                      indexData'.methods.at[k][n].file \in found
             /\ \A k \in Range(indexData'.paths.keys) :
                   \A n \in DOMAIN indexData'.paths.at[k] :
                      indexData'.paths.at[k][n].file \in found
             /\ \A k \in Range(indexData'.dependencies.keys) :
                   \A n \in DOMAIN indexData'.dependencies.at[k] :
                      indexData'.dependencies.at[k][n].from \in found]_vars

\* /q was indexed after /p: the index holds z.ts alone while the cache
\* still holds the snapshot of /p
C18_Witness ==
    /\ call.op = "analyze_project"
    /\ call.outcome = "success"
    /\ call.walked
    /\ call.args.projectPath = Root_q
    /\ indexData.files.keys = <<<<"/", "q", "/", "z", ".", "t", "s">>>>
    /\ \E key \in DOMAIN cache : Len(cache[key].data.files) = 2

(* C19: in every state of the index reachable through analyze operations,  *)
(* every dependency edge is stored under the key equal to its from field,  *)
(* and that from value is a key of the files mapping.                      *)
C19_EdgesUnderIndexedFile ==
    \A k \in Range(indexData.dependencies.keys) :
       \A n \in DOMAIN indexData.dependencies.at[k] :
          /\ indexData.dependencies.at[k][n].from = k
          /\ MapHas(indexData.files, k)

(* C20: for every dependency edge produced by extraction, ES import or     *)
(* CommonJS require, resolvedTo, when present, is an absolute path: it is  *)
(* set only when the resolver returned a path, and carries that path.      *)
C20_ResolvedToAbsolute ==
    call.op = "parseImports" =>
        \A n \in DOMAIN call.deps :
           \A resolved \in {ResolveImportPath(InputResolver, input.spec, InputFile)} :
              "resolvedTo" \in DOMAIN call.deps[n] =>
                 /\ IsAbsolute(call.deps[n].resolvedTo)
                 /\ resolved # Null
                 /\ call.deps[n].resolvedTo = resolved

\* the files below the project root of the arguments that the include and
\* exclude patterns let through and whose extension the parser does not
\* recognise
UnparsedIncluded(args) ==
    {f \in Range(ProjectTree(fsVersion)) :
        \A projectPath \in {Resolve(args.projectPath)} :
           /\ StartsWith(f.path, projectPath \o <<"/">>)
           /\ ShouldInclude(projectPath, AnalysisOptions(args), f.path)
           /\ ~ShouldParseFile(f.path)}

(* C21: a file that matches the include patterns, matches no exclude       *)
(* pattern and has an extension the extractor does not recognise (.json)   *)
(* is recorded in the index as a file record and counted in totalFiles,    *)
(* with no symbols, routes or dependency edges extracted for it.           *)
C21_UnparsedFileRecorded ==
    [][(AnalyzeCalled /\ call'.outcome = "success" /\ ~call'.restored) =>
          \A f \in UnparsedIncluded(call'.args) :
             /\ MapHas(indexData'.files, f.path)
             /\ ~MapHas(indexData'.methods, f.path)
             /\ ~MapHas(indexData'.paths, f.path)
             /\ ~MapHas(indexData'.dependencies, f.path)]_vars

\* the .ts and .js files that lie directly in the project root of the
\* arguments and match no exclude pattern
RootSources(args) ==
    {f \in Range(ProjectTree(fsVersion)) :
        \A projectPath \in {Resolve(args.projectPath)} :
        \A options \in {AnalysisOptions(args)} :
           /\ Dirname(f.path) = projectPath
           /\ Extname(f.path) \in {Ext_ts, Ext_js}
           /\ ~\E i \in DOMAIN options.excludePatterns :
                  MatchesPattern(Relative(projectPath, f.path), options.excludePatterns[i])}

(* C28: with include patterns of the form '**/*.ext' (the defaults         *)
(* '**/*.ts', '**/*.js'), a source file directly in the project root,      *)
(* whose root-relative path contains no '/', is discovered and indexed     *)
(* like a file in a subdirectory.                                          *)
C28_RootFilesIndexed ==
    [][(/\ AnalyzeCalled
        /\ call'.outcome = "success"
        /\ ~call'.restored
        /\ AnalysisOptions(call'.args).includePatterns = DefaultIncludePatterns)
       => \A f \in RootSources(call'.args) :
             /\ MapHas(indexData'.files, f.path)
             /\ MapHas(indexData'.methods, f.path)]_vars

(***************************************************************************)
(* Dependency traversal over larger graphs: four files below /p/src whose  *)
(* imports form a chain of relative specifiers, a cycle, or a diamond with *)
(* a tail (a -> b -> c, a -> c, c -> d, d -> e) in both orders of the      *)
(* imports of a.ts.                                                        *)
(***************************************************************************)
File_c == <<"/", "p", "/", "s", "r", "c", "/", "c", ".", "t", "s">>

File_d == <<"/", "p", "/", "s", "r", "c", "/", "d", ".", "t", "s">>

File_e == <<"/", "p", "/", "s", "r", "c", "/", "e", ".", "t", "s">>

Spec_c == <<".", "/", "c">>

Name_a_ts == <<"a", ".", "t", "s">>

\* the imports of a.ts, b.ts, c.ts and d.ts, in line order
GraphImports ==
    {<<<<Spec_b>>, <<Spec_c>>, <<>>, <<>>>>,
     <<<<File_b>>, <<File_a>>, <<>>, <<>>>>,
     <<<<File_b, File_c>>, <<File_c>>, <<File_d>>, <<File_e>>>>,
     <<<<File_c, File_b>>, <<File_c>>, <<File_d>>, <<File_e>>>>}

GraphFiles == <<File_a, File_b, File_c, File_d>>

GraphTree(imports) ==
    [i \in DOMAIN GraphFiles |->
        [path  |-> GraphFiles[i],
         lines |-> [n \in DOMAIN imports[i] |-> ImportLine(imports[i][n])],
         size  |-> Len(imports[i]), mtime |-> 0, fault |-> "none"]]

\* the index of an analysis of the four files
GraphIndex(imports) ==
    Reindex(NewIndexData, 0, GraphTree(imports), NewPathResolver(EmptyMap, Root_p), Root_p,
            <<1, 2, 3, 4>>, <<1, 2, 3, 4>>)

GraphEntities == {File_a, File_c, Name_a_ts}

GraphDepths == 1..3

GraphArgs ==
    {[entityName |-> e, direction |-> dir, depth |-> n] :
        e \in GraphEntities, dir \in Directions, n \in GraphDepths}

InitGraph ==
    /\ cache = EmptyMap
    /\ disk = EmptyMap
    /\ now = 0
    /\ written = EmptyMap
    /\ call = [op |-> "init"]
    /\ input = Null
    /\ \E imports \in GraphImports : indexData = GraphIndex(imports)
    /\ pathResolver = NewPathResolver(EmptyMap, Root_p)
    /\ fsVersion = 1
    /\ faults = EmptyMap
    /\ task = Null

NextGraph ==
    \/ \E args \in GraphArgs : FindDependenciesOp(args)
    \/ EnterCall
    \/ VisitOutgoing
    \/ VisitIncoming
    \/ ReturnCall
    \/ FinishFindDependencies

SpecGraph == InitGraph /\ [][NextGraph]_vars

\* a find_dependencies call has returned its result
Answered == call.op = "find_dependencies" /\ call.outcome = "success"

\* the edges of the index and of a list, as sets
IndexEdges == Range(AllDependencies(indexData))

(* C22: dependency traversal is transitive over resolved imports: when     *)
(* file A imports a specifier that resolves to file B and B imports a      *)
(* specifier that resolves to file C, findDependencies(A, 'outgoing',      *)
(* depth >= 2) has B's edge to C in outgoing and findDependencies(C,       *)
(* 'incoming', depth >= 2) has A's edge to B in incoming.                  *)
C22_TransitiveOverResolved ==
    (Answered /\ call.args.depth >= 2) =>
        \A ab \in IndexEdges, bc \in IndexEdges :
           (ab.resolvedTo = bc.from /\ ab.from # bc.from) =>
              /\ (call.args.direction = "outgoing" /\ call.args.entityName = ab.from)
                    => bc \in Range(call.result.outgoing)
              /\ (call.args.direction = "incoming" /\ call.args.entityName = bc.resolvedTo)
                    => ab \in Range(call.result.incoming)

\* the expansion relation: the names one expansion reaches from a set of
\* frontier names (the other endpoint of every edge that matches one of them)
Expand(names, direction) ==
    {e.to : e \in {x \in IndexEdges : direction \in {"outgoing", "both"}
                                      /\ \E n \in names : Includes(x.from, n)}}
    \cup
    {e.from : e \in {x \in IndexEdges : direction \in {"incoming", "both"}
                                        /\ \E n \in names : Includes(x.to, n)}}

\* the names within k expansions of entityName
RECURSIVE Within(_, _, _)
Within(entityName, direction, k) ==
    IF k = 0 THEN {entityName}
    ELSE LET near == Within(entityName, direction, k - 1)
         IN near \cup Expand(near, direction)

\* the edges a breadth-first exploration bounded by depth collects
BfsOutgoing(entityName, direction, depth) ==
    IF direction = "incoming" THEN {}
    ELSE {e \in IndexEdges :
            \E n \in Within(entityName, direction, depth - 1) : Includes(e.from, n)}

BfsIncoming(entityName, direction, depth) ==
    IF direction = "outgoing" THEN {}
    ELSE {e \in IndexEdges :
            \E n \in Within(entityName, direction, depth - 1) : Includes(e.to, n)}

(* C23: findDependencies collects every edge within depth hops of          *)
(* entityName under its expansion relation: the sets of edges in incoming  *)
(* and outgoing equal those of a breadth-first exploration bounded by      *)
(* depth, whatever the order of the edges in the index.                    *)
C23_EqualsBoundedBfs ==
    Answered =>
        /\ Range(call.result.outgoing)
              = BfsOutgoing(call.args.entityName, call.args.direction, call.args.depth)
        /\ Range(call.result.incoming)
              = BfsIncoming(call.args.entityName, call.args.direction, call.args.depth)

(* C24: the two directions of findDependencies are independent and         *)
(* bounded: with 'outgoing' the incoming list is empty and only from-to    *)
(* expansions happen, with 'incoming' the outgoing list is empty and only  *)
(* to-from expansions happen, and no edge is collected at a hop count of   *)
(* depth or more (with depth 1 only the edges that match entityName).      *)
C24_DirectionsIndependentAndBounded ==
    Answered =>
        /\ call.args.direction = "outgoing" => call.result.incoming = <<>>
        /\ call.args.direction = "incoming" => call.result.outgoing = <<>>
        /\ Range(call.result.outgoing)
              \subseteq BfsOutgoing(call.args.entityName, call.args.direction, call.args.depth)
        /\ Range(call.result.incoming)
              \subseteq BfsIncoming(call.args.entityName, call.args.direction, call.args.depth)
        /\ call.args.depth = 1 =>
              /\ \A e \in Range(call.result.outgoing) : Includes(e.from, call.args.entityName)
              /\ \A e \in Range(call.result.incoming) : Includes(e.to, call.args.entityName)

\* a call of depth 1 in one direction has collected the edges of the entity
\* itself, in an index whose edges go on beyond them
C24_Witness ==
    /\ Answered
    /\ call.args.depth = 1
    /\ call.args.direction = "outgoing"
    /\ call.args.entityName = File_a
    /\ Len(call.result.outgoing) = 2
    /\ call.result.incoming = <<>>
    /\ \E e \in IndexEdges : e.from = File_c /\ e.to = File_d

\* no element occurs twice in a list
NoDuplicates(list) == \A i, j \in DOMAIN list : list[i] = list[j] => i = j

(* C25: in the result of one findDependencies call no dependency edge      *)
(* appears more than once in the outgoing list and none more than once in  *)
(* the incoming list, for every direction and depth, also on cyclic graphs.*)
C25_NoEdgeTwice ==
    Answered => NoDuplicates(call.result.outgoing) /\ NoDuplicates(call.result.incoming)

(***************************************************************************)
(* PathResolver.resolveImportPath on its own: one specifier is resolved    *)
(* with a resolver of a given configuration.                               *)
(***************************************************************************)
Spec_hashRoot == <<"#", "r", "o", "o", "t", "/", "x">>

RuleSpecifiers ==
    {<<".", "/", "b">>,
     <<".", ".", "/", "l", "i", "b", "/", "x">>,
     <<"f", "s">>,
     Spec_hashRoot,
     <<"/", "a", "b", "s", "/", "y">>,
     <<"@", "a", "p", "p", "/", "u", "t", "i", "l">>}

\* tsconfig.json with paths {"#root/*": ["src/*"], "@app/*": ["src/app/*"]}
TsConfigHashPaths ==
    [baseUrl |-> Undefined,
     paths   |-> << <<<<"#", "r", "o", "o", "t", "/", "*">>,
                      << <<"s", "r", "c", "/", "*">> >> >>,
                    <<<<"@", "a", "p", "p", "/", "*">>,
                      << <<"s", "r", "c", "/", "a", "p", "p", "/", "*">> >> >> >>]

\* package.json with imports {"#lib/*": "./lib/*"}
PackageOtherAlias ==
    [imports |-> << <<<<"#", "l", "i", "b", "/", "*">>,
                      <<".", "/", "l", "i", "b", "/", "*">> >> >>]

RuleInputs ==
    [root        : {Root_p},
     fromFile    : {<<"s", "r", "c", "/", "a", ".", "t", "s">>, <<"m", ".", "t", "s">>},
     spec        : RuleSpecifiers,
     kind        : {"import"},
     tsConfig    : {Null, TsConfigWithPaths, TsConfigHashPaths},
     packageJson : {Null, PackageWithImports, PackageOtherAlias}]

InitRule ==
    /\ input \in RuleInputs
    /\ call = [op |-> "init"]
    /\ cache = EmptyMap
    /\ disk = EmptyMap
    /\ now = 0
    /\ written = EmptyMap
    /\ indexData = Null
    /\ pathResolver = Null
    /\ fsVersion = 1
    /\ faults = EmptyMap
    /\ task = Null

ResolveImportPathOp ==
    /\ call.op = "init"
    /\ call' = [op     |-> "resolveImportPath",
                result |-> ResolveImportPath(InputResolver, input.spec, InputFile)]
    /\ UNCHANGED <<input, cacheVars, engineVars>>

NextRule == ResolveImportPathOp

SpecRule == InitRule /\ [][NextRule]_vars

IsAliasSpec(spec) == StartsWith(spec, <<"#">>)

\* some pattern of package.json's imports matches the specifier
AliasPatternMatches(r, spec) ==
    /\ r.packageJson # Null
    /\ \E i \in DOMAIN r.packageJson.imports :
          MatchesImportPattern(spec, r.packageJson.imports[i][1])

(* C26: resolveImportPath selects exactly one rule by the specifier's      *)
(* prefix, in the order alias ('#'), relative ('./' or '../'), absolute    *)
(* ('/'), compiler path mapping (only when configured), and otherwise      *)
(* returns null: an alias specifier that matches no package-alias pattern  *)
(* returns null without being tried against the path mappings, and a bare  *)
(* specifier with no path mapping configured returns null.                 *)
C26_OneRuleByPrefix ==
    call.op = "resolveImportPath" =>
        \A r \in {InputResolver} :
           /\ IsAliasSpec(input.spec) =>
                 /\ call.result = ResolvePackageImport(r, input.spec)
                 /\ ~AliasPatternMatches(r, input.spec) => call.result = Null
           /\ IsRelativeSpec(input.spec) =>
                 call.result = ResolveRelativeImport(r, input.spec, Dirname(InputFile))
           /\ StartsWith(input.spec, <<"/">>) =>
                 call.result = ResolveToExistingFile(r, input.spec)
           /\ (~IsAliasSpec(input.spec) /\ ~IsRelativeSpec(input.spec)
                  /\ ~StartsWith(input.spec, <<"/">>)) =>
                 /\ input.tsConfig # Null => call.result = ResolvePathMapping(r, input.spec)
                 /\ input.tsConfig = Null => call.result = Null

\* an alias specifier that no package import matches, and that a path
\* mapping of the configuration would resolve, has been given null
C26_Witness ==
    /\ call.op = "resolveImportPath"
    /\ input.spec = Spec_hashRoot
    /\ input.packageJson = PackageOtherAlias
    /\ input.tsConfig = TsConfigHashPaths
    /\ ResolvePathMapping(InputResolver, input.spec) # Null
    /\ call.result = Null

(***************************************************************************)
(* PathResolver.findFileInParentDirs on its own: tsconfig.json is looked   *)
(* up from a project root at some depth of a directory chain in which any  *)
(* directory holds the file, a file that does not parse, or none.          *)
(***************************************************************************)
Dir_root == <<"/">>

Dir_o == <<"/", "o">>

Dir_om == <<"/", "o", "/", "m">>

Dir_omw == <<"/", "o", "/", "m", "/", "w">>

ConfigDirs == <<Dir_root, Dir_o, Dir_om, Dir_omw>>

\* the document of the tsconfig.json of a directory
DocOf(dir) == [baseUrl |-> dir, paths |-> <<>>]

\* what each directory holds
Placements == [DOMAIN ConfigDirs -> {"none", "document", "malformed"}]

ConfigsOf(placement) ==
    [path \in {Join(ConfigDirs[i], File_tsconfig) :
                  i \in {k \in DOMAIN ConfigDirs : placement[k] # "none"}} |->
        LET i == CHOOSE k \in DOMAIN ConfigDirs : Join(ConfigDirs[k], File_tsconfig) = path
        IN IF placement[i] = "document" THEN DocOf(ConfigDirs[i]) ELSE Malformed]

ConfigInputs == [root : Range(ConfigDirs), placement : Placements]

InitConfig ==
    /\ input \in ConfigInputs
    /\ call = [op |-> "init"]
    /\ cache = EmptyMap
    /\ disk = EmptyMap
    /\ now = 0
    /\ written = EmptyMap
    /\ indexData = Null
    /\ pathResolver = Null
    /\ fsVersion = 1
    /\ faults = EmptyMap
    /\ task = Null

\* new PathResolver(root) and loadTsConfig()
LoadTsConfigOp ==
    /\ call.op = "init"
    /\ \E found \in {SearchParentDirs(ConfigsOf(input.placement), Resolve(input.root),
                                      File_tsconfig, MaxLevelsUp, <<>>)} :
          call' = [op |-> "loadTsConfig", tsConfig |-> found.doc, reads |-> found.reads]
    /\ UNCHANGED <<input, cacheVars, engineVars>>

NextConfig == LoadTsConfigOp

SpecConfig == InitConfig /\ [][NextConfig]_vars

\* the project root, its parent and its grandparent, as far as they exist
SearchLocations(root) ==
    IF Dirname(root) = root THEN <<root>>
    ELSE IF Dirname(Dirname(root)) = Dirname(root) THEN <<root, Dirname(root)>>
    ELSE <<root, Dirname(root), Dirname(Dirname(root))>>

\* the directory holds a tsconfig.json that can be read and parsed
HoldsDocument(dir) ==
    \E i \in DOMAIN ConfigDirs : ConfigDirs[i] = dir /\ input.placement[i] = "document"

(* C27: loading a configuration document reads at most three locations,    *)
(* in the order project root, parent, grandparent, and returns the first   *)
(* one found; it never reads above the grandparent, stops at the           *)
(* filesystem root, and returns null when none is found.                   *)
C27_BoundedUpwardSearch ==
    call.op = "loadTsConfig" =>
        \A locations \in {SearchLocations(input.root)} :
           /\ Len(call.reads) <= 3
           /\ Len(call.reads) <= Len(locations)
           /\ \A i \in DOMAIN call.reads :
                 call.reads[i] = Join(locations[i], File_tsconfig)
           /\ \A i \in DOMAIN locations :
                 (HoldsDocument(locations[i])
                     /\ \A j \in 1..(i - 1) : ~HoldsDocument(locations[j]))
                 => call.tsConfig = DocOf(locations[i]) /\ Len(call.reads) = i
           /\ (\A i \in DOMAIN locations : ~HoldsDocument(locations[i]))
                 => call.tsConfig = Null /\ Len(call.reads) = Len(locations)

\* the search from /o/m/w has read three locations and returned null while
\* the directory above the grandparent holds a document
C27_Witness ==
    /\ call.op = "loadTsConfig"
    /\ input.root = Dir_omw
    /\ input.placement[1] = "document"
    /\ Len(call.reads) = 3
    /\ call.tsConfig = Null

\* the lines of a file that hold a route registration .<verb>("<path>", ...)
RouteLines(f) == {n \in DOMAIN f.lines : f.lines[n].kind = "route"}

\* the records of a list that were taken from line n
RecordsOfLine(records, n) == {i \in DOMAIN records : records[i].line = n}

(* C29: a source line that contains one route-registration call of the     *)
(* shape .<verb>("<path>", ...) contributes exactly one RouteRecord (that  *)
(* verb in upper case, that path, that line), so totalPaths equals the     *)
(* number of such route declarations.                                      *)
C29_OneRecordPerRoute ==
    [][(AnalyzeCalled /\ call'.outcome = "success" /\ ~call'.restored) =>
          \A f \in Range(ProjectTree(fsVersion)) :
             MapHas(indexData'.paths, f.path) =>
                \A n \in RouteLines(f), records \in {indexData'.paths.at[f.path]} :
                   /\ Cardinality(RecordsOfLine(records, n)) = 1
                   /\ \A i \in RecordsOfLine(records, n) :
                         /\ records[i].method = f.lines[n].verb
                         /\ records[i].path = f.lines[n].path]_vars

(***************************************************************************)
(* The shared engine of the server process.  start() connects the          *)
(* transport and then calls getOrCreateIndexer; from the connection on,    *)
(* the handlers of tool calls and of resource reads call it as well, each  *)
(* on its own, and a call is suspended at each of its two awaits.  Cache   *)
(* managers and indexers are numbered in the order of their construction,  *)
(* 0 is null.  task holds globalIndexer, globalCache, isInitialized, the   *)
(* cache manager each indexer was constructed with, the indexers that      *)
(* hold an index, and the position of start() and of the two handlers.     *)
(***************************************************************************)
Callers == {"start", "tool", "resource"}

InitServer ==
    /\ cache = EmptyMap
    /\ disk = EmptyMap
    /\ now = 0
    /\ written = EmptyMap
    /\ call = [op |-> "init"]
    /\ input = Null
    /\ indexData = Null
    /\ pathResolver = Null
    /\ fsVersion = 1
    /\ faults = EmptyMap
    /\ task = [globalIndexer |-> 0,
               globalCache   |-> 0,
               isInitialized |-> FALSE,
               caches        |-> 0,
               indexers      |-> <<>>,
               built         |-> {},
               callers       |-> [i \in Callers |-> [at |-> "idle", indexer |-> 0]]]

\* getOrCreateIndexer is entered: `if (!globalIndexer)`, and either the
\* return of the instance or `globalCache = new CacheManager()` and the
\* suspension at `await globalCache.init()`
EnterGetOrCreate(i) ==
    /\ task.callers[i].at = "idle"
    /\ task' = IF task.globalIndexer # 0
               THEN [task EXCEPT !.callers[i] = [at |-> "ready", indexer |-> task.globalIndexer]]
               ELSE [task EXCEPT !.caches = @ + 1,
                                 !.globalCache = task.caches + 1,
                                 !.callers[i].at = "cacheInit"]
    /\ UNCHANGED <<cacheVars, call, input, indexData, pathResolver, fsVersion, faults>>

\* `await globalCache.init()` is over: `globalIndexer = new
\* ProjectIndexer(globalCache)` and the suspension at `await
\* globalIndexer.initialize()`
CacheInitDone(i) ==
    /\ task.callers[i].at = "cacheInit"
    /\ task' = [task EXCEPT !.indexers = Append(@, task.globalCache),
                            !.globalIndexer = Len(task.indexers) + 1,
                            !.callers[i].at = "initialize"]
    /\ UNCHANGED <<cacheVars, call, input, indexData, pathResolver, fsVersion, faults>>

\* `await globalIndexer.initialize()` is over: `isInitialized = true` and
\* `return globalIndexer`
InitializeDone(i) ==
    /\ task.callers[i].at = "initialize"
    /\ task' = [task EXCEPT !.isInitialized = TRUE,
                            !.callers[i] = [at |-> "ready", indexer |-> task.globalIndexer]]
    /\ UNCHANGED <<cacheVars, call, input, indexData, pathResolver, fsVersion, faults>>

\* the caller goes on with the instance it was given: start() has started
\* the server, the tool handler builds an index in the instance, the
\* resource handler reads the instance
UseIndexer(i) ==
    /\ task.callers[i].at = "ready"
    /\ \E held \in {task.callers[i].indexer} :
          /\ task' = [task EXCEPT
                        !.built = IF i = "tool" THEN @ \cup {held} ELSE @,
                        !.callers[i].at = IF i = "start" THEN "started" ELSE "idle"]
          /\ call' = [op         |-> i,
                      indexer    |-> held,
                      afterBuild |-> task.built # {},
                      sees       |-> held \in task.built]
    /\ UNCHANGED <<cacheVars, input, indexData, pathResolver, fsVersion, faults>>

NextServer ==
    \/ \E i \in Callers : EnterGetOrCreate(i)
    \/ \E i \in Callers : CacheInitDone(i)
    \/ \E i \in Callers : InitializeDone(i)
    \/ \E i \in Callers : UseIndexer(i)

SpecServer == InitServer /\ [][NextServer]_vars

(* C30: at most one engine instance (indexer plus cache) is ever created   *)
(* in a server process and every tool call and resource read operates on   *)
(* that same instance, also when requests arrive while the first           *)
(* initialisation is still in progress; so an index built by one call is   *)
(* visible to every later call.                                            *)
C30_OneEngineInstance ==
    /\ task.caches <= 1
    /\ Len(task.indexers) <= 1
    /\ \A i \in Callers : task.callers[i].at = "ready" =>
          task.callers[i].indexer = task.globalIndexer
    /\ (call.op = "resource" /\ call.afterBuild) => call.sees

====
